---- MODULE Spec2Model ----
(***************************************************************************)
(* Flashr: the match_faces quiz mode.                                      *)
(*                                                                         *)
(* Strings are sequences of one-character strings, so that joining,        *)
(* separator inference and CardId formatting are computed, not assumed.    *)
(* Weights (f64 in the source) are exact fractions [n, d] in lowest terms; *)
(* floating point rounding is not modelled.  Indices stored in program     *)
(* data (PromptCard.index, answer_index) are 0-based as in the source;     *)
(* TLA+ sequences are 1-based, so slot k of a Vec is items[k + 1].         *)
(***************************************************************************)
EXTENDS Integers, Sequences, FiniteSets, TLC

(***************************************************************************)
(* Bounds of the model.                                                    *)
(***************************************************************************)
\* largest problem_count given on the command line, and the cap on the
\* number of problems drawn in the unbounded mode
MaxProblems == 1
\* largest counter value of a CardStats in the CardStats specification
MaxStat == 10
\* largest number of items of the WeightedList driven on its own
MaxItems == 3
\* the change_weight calls made on a list driven with rounded arithmetic
MaxChanges == 2
\* largest number of cards handed to show_flashcards
MaxCards == 3

\* modes/match_faces/mod.rs:18
ANSWERS_PER_PROBLEM == 4
\* deck.rs:89
MIN_FACE_COUNT == 2

(***************************************************************************)
(* Generic helpers.                                                        *)
(***************************************************************************)
Range(s) == {s[i] : i \in DOMAIN s}

\* usize::saturating_sub
SaturatingSub(a, b) == IF a >= b THEN a - b ELSE 0

RECURSIVE GCD(_, _)
GCD(a, b) == IF b = 0 THEN a ELSE GCD(b, a % b)

LCM(a, b) == (a * b) \div GCD(a, b)

\* all bijections of 1..n onto itself: the outcomes of SliceRandom::shuffle
Perms(n) == {p \in [1..n -> 1..n] : \A i, j \in 1..n : p[i] = p[j] => i = j}

Permute(s, p) == [i \in 1..Len(s) |-> s[p[i]]]

\* Vec::swap_remove(k), k 0-based: the last element takes the vacated slot
SwapRemove(s, k) ==
    LET n == Len(s)
    IN  [i \in 1..(n - 1) |-> IF i = k + 1 THEN s[n] ELSE s[i]]

(***************************************************************************)
(* Exact arithmetic standing for f64.                                      *)
(***************************************************************************)
Frac(n, d) ==
    LET g == GCD(IF n < 0 THEN -n ELSE n, d)
    IN  [n |-> n \div g, d |-> d \div g]

FZero == [n |-> 0, d |-> 1]

FAdd(a, b) == Frac(a.n * b.d + b.n * a.d, a.d * b.d)

FSub(a, b) == Frac(a.n * b.d - b.n * a.d, a.d * b.d)

FLess(a, b) == a.n * b.d < b.n * a.d

FLeq(a, b) == a.n * b.d <= b.n * a.d

(***************************************************************************)
(* Binary floating point standing for f64: the values are the fractions    *)
(* m * 2^e with a significand m of SignificandBits bits (53 in f64), and   *)
(* every operation rounds its exact result to the nearest value, ties to   *)
(* the even significand.                                                   *)
(***************************************************************************)
SignificandBits == 4

FNeg(a) == [n |-> -a.n, d |-> a.d]

FDiv(a, b) == Frac(a.n * b.d, a.d * b.n)

\* the integer nearest to a fraction >= 0, ties to even
NearestEven(q) ==
    LET floor == q.n \div q.d
        twice == 2 * (q.n % q.d)
    IN  IF twice < q.d THEN floor
        ELSE IF twice > q.d THEN floor + 1
        ELSE IF floor % 2 = 0 THEN floor ELSE floor + 1

\* x > 0 rounded to a multiple of the power of two `unit`, the unit being
\* moved until the significand has SignificandBits bits
RECURSIVE RoundWithUnit(_, _)
RoundWithUnit(x, unit) ==
    IF ~FLess(FDiv(x, unit), Frac(2 ^ SignificandBits, 1))
    THEN RoundWithUnit(x, FAdd(unit, unit))
    ELSE IF FLess(FDiv(x, unit), Frac(2 ^ (SignificandBits - 1), 1))
        THEN RoundWithUnit(x, FDiv(unit, Frac(2, 1)))
    ELSE Frac(NearestEven(FDiv(x, unit)) * unit.n, unit.d)

\* the floating-point value nearest to x
RoundNearest(x) ==
    IF x.n = 0 THEN FZero
    ELSE IF x.n < 0 THEN FNeg(RoundWithUnit(FNeg(x), Frac(1, 1)))
    ELSE RoundWithUnit(x, Frac(1, 1))

\* f64 + and -
F64Add(a, b) == RoundNearest(FAdd(a, b))

F64Sub(a, b) == RoundNearest(FSub(a, b))

(***************************************************************************)
(* deck.rs: Face, Card, Deck, CardId.                                      *)
(***************************************************************************)
\* Face::Single(s)
Single(s) == [multi |-> FALSE, v |-> <<s>>]

\* Face::Multi(vs)
Multi(vs) == [multi |-> TRUE, v |-> vs]

\* Option<Face>::None in a card
NoFace == [multi |-> FALSE, v |-> <<>>]

IsSome(f) == f # NoFace

\* str::contains(pat) for a one-character pattern
StrContains(s, c) == \E i \in DOMAIN s : s[i] = c

\* [String]::join(sep)
RECURSIVE JoinStrings(_, _)
JoinStrings(ss, sep) ==
    IF Len(ss) = 0 THEN <<>>
    ELSE IF Len(ss) = 1 THEN ss[1]
    ELSE ss[1] \o sep \o JoinStrings(Tail(ss), sep)

FaceContains(face, c) == \E i \in DOMAIN face.v : StrContains(face.v[i], c)

InferSeparator(face) ==
    IF FaceContains(face, ",") THEN <<";", " ">> ELSE <<",", " ">>

FaceJoin(face, sep) == JoinStrings(face.v, sep)

\* Display for Face
FaceToString(face) == FaceJoin(face, InferSeparator(face))

\* Face::join_random with the shuffle outcome p made explicit
JoinRandom(face, sep, p) ==
    IF face.multi THEN JoinStrings(Permute(face.v, p), sep) ELSE face.v[1]

\* every string join_random can return for a face
JoinRandomPrompts(face) ==
    {JoinRandom(face, InferSeparator(face), p) : p \in Perms(Len(face.v))}

IsMultiAndEmpty(face) == face.multi /\ Len(face.v) = 0

PresentCount(card) == Cardinality({i \in DOMAIN card : IsSome(card[i])})

\* Card::front: the first present face (NoFace when there is none)
Front(card) ==
    LET present == {i \in DOMAIN card : IsSome(card[i])}
    IN  IF present = {} THEN NoFace
        ELSE card[CHOOSE i \in present : \A j \in present : i <= j]

FrontString(card) == FaceToString(Front(card))

\* CardId::get: format!("{deck}:{card}")
CardIdGet(deck, card) == deck.name \o <<":">> \o FrontString(card)

\* validate_deck without its last check, the one for DuplicateFront
ValidateDeckFrontsUnchecked(deck) ==
    LET expected_face_count == Len(deck.faces)
    IN  IF expected_face_count < MIN_FACE_COUNT THEN "NotEnoughFaces"
        ELSE IF \E i, j \in DOMAIN deck.faces : i < j /\ deck.faces[i] = deck.faces[j]
            THEN "DuplicateFace"
        ELSE IF \E c \in DOMAIN deck.cards : Len(deck.cards[c]) # expected_face_count
            THEN LET c == CHOOSE k \in DOMAIN deck.cards :
                              /\ Len(deck.cards[k]) # expected_face_count
                              /\ \A m \in DOMAIN deck.cards :
                                    Len(deck.cards[m]) # expected_face_count => k <= m
                 IN  IF Len(deck.cards[c]) > expected_face_count
                     THEN "TooManyFaces" ELSE "NotEnoughFaces(card)"
        ELSE IF \E c \in DOMAIN deck.cards : PresentCount(deck.cards[c]) < MIN_FACE_COUNT
            THEN "NotEnoughUsableFaces"
        ELSE IF \E c \in DOMAIN deck.cards : \E i \in DOMAIN deck.cards[c] :
                    IsSome(deck.cards[c][i]) /\ IsMultiAndEmpty(deck.cards[c][i])
            THEN "EmptyFace"
        ELSE "Ok"

\* validate_deck: "Ok" or the name of the error variant returned
ValidateDeck(deck) ==
    LET expected_face_count == Len(deck.faces)
    IN  IF expected_face_count < MIN_FACE_COUNT THEN "NotEnoughFaces"
        ELSE IF \E i, j \in DOMAIN deck.faces : i < j /\ deck.faces[i] = deck.faces[j]
            THEN "DuplicateFace"
        ELSE IF \E c \in DOMAIN deck.cards : Len(deck.cards[c]) # expected_face_count
            THEN LET c == CHOOSE k \in DOMAIN deck.cards :
                              /\ Len(deck.cards[k]) # expected_face_count
                              /\ \A m \in DOMAIN deck.cards :
                                    Len(deck.cards[m]) # expected_face_count => k <= m
                 IN  IF Len(deck.cards[c]) > expected_face_count
                     THEN "TooManyFaces" ELSE "NotEnoughFaces(card)"
        ELSE IF \E c \in DOMAIN deck.cards : PresentCount(deck.cards[c]) < MIN_FACE_COUNT
            THEN "NotEnoughUsableFaces"
        ELSE IF \E c \in DOMAIN deck.cards : \E i \in DOMAIN deck.cards[c] :
                    IsSome(deck.cards[c][i]) /\ IsMultiAndEmpty(deck.cards[c][i])
            THEN "EmptyFace"
        ELSE IF \E a, b \in DOMAIN deck.cards :
                    a # b /\ Front(deck.cards[a]) = Front(deck.cards[b])
            THEN "DuplicateFront"
        ELSE "Ok"

\* validate_decks
ValidateDecks(ds) ==
    IF \E i, j \in DOMAIN ds : i # j /\ ds[i].name = ds[j].name
    THEN "DuplicateDeckNames" ELSE "Ok"

\* load_decks returns Ok
LoadDecksOk(ds) ==
    /\ \A i \in DOMAIN ds : ValidateDeck(ds[i]) = "Ok"
    /\ ValidateDecks(ds) = "Ok"

\* load_decks: every deck is validated as its file is read, in the order of
\* the paths, and the first error is returned; then the names are compared
LoadDecks(ds) ==
    LET failing == {i \in DOMAIN ds : ValidateDeck(ds[i]) # "Ok"}
    IN  IF failing # {}
        THEN ValidateDeck(ds[CHOOSE i \in failing : \A j \in failing : i <= j])
        ELSE ValidateDecks(ds)

(***************************************************************************)
(* stats.rs: CardStats and the CardId -> CardStats map.                    *)
(***************************************************************************)
DefaultCardStats == [correct |-> 0, incorrect |-> 0]

\* CardStats::weight with the miss margin subtracted as a signed number
WeightUnsaturated(stats) ==
    FAdd(Frac(1, SaturatingSub(stats.correct, stats.incorrect) + 1),
         Frac(stats.incorrect - stats.correct, 1))

\* CardStats::weight
Weight(stats) ==
    FAdd(Frac(1, SaturatingSub(stats.correct, stats.incorrect) + 1),
         Frac(SaturatingSub(stats.incorrect, stats.correct), 1))

\* Stats::for_card_mut: the map with the entry for id created when absent
ForCardMut(cs, id) ==
    IF id \in DOMAIN cs THEN cs ELSE cs @@ (id :> DefaultCardStats)

(***************************************************************************)
(* stats.rs: the stats file.  serde_json::to_string and from_str on        *)
(* StatsJson, over texts without whitespace, with no other escapes than    *)
(* those of the quote and the backslash and no other values than those of  *)
(* StatsJson.                                                              *)
(***************************************************************************)
Quote == "\""

Backslash == "\\"

KeyCardStats == <<"c", "a", "r", "d", "_", "s", "t", "a", "t", "s">>

KeyCorrect == <<"c", "o", "r", "r", "e", "c", "t">>

KeyIncorrect == <<"i", "n", "c", "o", "r", "r", "e", "c", "t">>

DigitChars == <<"0", "1", "2", "3", "4", "5", "6", "7", "8", "9">>

DigitValue(c) == (CHOOSE k \in DOMAIN DigitChars : DigitChars[k] = c) - 1

\* usize as a JSON number
RECURSIVE Digits(_)
Digits(n) ==
    IF n < 10 THEN <<DigitChars[n + 1]>>
    ELSE Digits(n \div 10) \o <<DigitChars[(n % 10) + 1]>>

\* the characters of a JSON string: the quote and the backslash escaped
RECURSIVE Escape(_)
Escape(str) ==
    IF Len(str) = 0 THEN <<>>
    ELSE (IF Head(str) \in {Quote, Backslash} THEN <<Backslash, Head(str)>>
          ELSE <<Head(str)>>) \o Escape(Tail(str))

\* a string written between quotes with no character escaped
QuotedUnescaped(str) == <<Quote>> \o str \o <<Quote>>

\* a JSON string
Quoted(str) == <<Quote>> \o Escape(str) \o <<Quote>>

\* one entry of the map: "id":{"correct":c,"incorrect":i}
JsonEntry(id, stats) ==
    Quoted(id) \o <<":", "{">> \o Quoted(KeyCorrect) \o <<":">>
        \o Digits(stats.correct) \o <<",">> \o Quoted(KeyIncorrect) \o <<":">>
        \o Digits(stats.incorrect) \o <<"}">>

RECURSIVE JoinEntries(_, _, _)
JoinEntries(cs, order, k) ==
    IF k > Len(order) THEN <<>>
    ELSE (IF k > 1 THEN <<",">> ELSE <<>>) \o JsonEntry(order[k], cs[order[k]])
            \o JoinEntries(cs, order, k + 1)

\* serde_json::to_string(&StatsJson) with the HashMap iterated in the given
\* order of its keys
ToJson(cs, order) ==
    <<"{">> \o Quoted(KeyCardStats) \o <<":", "{">> \o JoinEntries(cs, order, 1)
        \o <<"}", "}">>

\* the orders in which a HashMap can iterate its keys
KeyOrders(cs) ==
    LET n == Cardinality(DOMAIN cs)
    IN  {o \in [1..n -> DOMAIN cs] : \A i, j \in 1..n : o[i] = o[j] => i = j}

\* the result of a parsing step that failed: position 0
ParseFail == [p |-> 0, v |-> <<>>]

\* the position after the character c expected at position p, or 0
ExpectChar(text, p, c) ==
    IF p >= 1 /\ p <= Len(text) /\ text[p] = c THEN p + 1 ELSE 0

RECURSIVE ReadChars(_, _, _)
ReadChars(text, p, acc) ==
    IF p > Len(text) THEN ParseFail
    ELSE IF text[p] = Quote THEN [p |-> p + 1, v |-> acc]
    ELSE IF text[p] = Backslash
        THEN IF p + 1 <= Len(text) /\ text[p + 1] \in {Quote, Backslash}
             THEN ReadChars(text, p + 2, Append(acc, text[p + 1]))
             ELSE ParseFail
    ELSE ReadChars(text, p + 1, Append(acc, text[p]))

\* a JSON string starting at p
ParseString(text, p) ==
    IF ExpectChar(text, p, Quote) = 0 THEN ParseFail
    ELSE ReadChars(text, p + 1, <<>>)

RECURSIVE ReadDigits(_, _, _)
ReadDigits(text, p, acc) ==
    IF p <= Len(text) /\ text[p] \in Range(DigitChars)
    THEN ReadDigits(text, p + 1, acc * 10 + DigitValue(text[p]))
    ELSE [p |-> p, v |-> acc]

\* a JSON number read as usize: digits, no leading zero
ParseNumber(text, p) ==
    IF p < 1 \/ p > Len(text) THEN ParseFail
    ELSE IF text[p] \notin Range(DigitChars) THEN ParseFail
    ELSE IF text[p] = "0" /\ p + 1 <= Len(text) /\ text[p + 1] \in Range(DigitChars)
        THEN ParseFail
    ELSE ReadDigits(text, p, 0)

\* the value of an expression, computed once: the element of {expression}
The(S) == CHOOSE value \in S : TRUE

\* the position after the colon that follows the key just read, or 0
AfterColon(text, key) ==
    IF key.p = 0 THEN 0 ELSE ExpectChar(text, key.p, ":")

\* the fields "key":number of a CardStats object up to its closing brace; a
\* field given twice is an error
RECURSIVE ReadFields(_, _, _)
ReadFields(text, p, acc) ==
    The({The({The({
        IF num.p = 0 THEN ParseFail
        ELSE IF key.v \in DOMAIN acc THEN ParseFail
        ELSE IF ExpectChar(text, num.p, ",") # 0
            THEN ReadFields(text, num.p + 1, fields)
        ELSE IF ExpectChar(text, num.p, "}") # 0
            THEN [p |-> num.p + 1, v |-> fields]
        ELSE ParseFail
        : fields \in {IF num.p = 0 THEN acc ELSE (key.v :> num.v) @@ acc}})
        : num \in {IF AfterColon(text, key) = 0 THEN ParseFail
                   ELSE ParseNumber(text, AfterColon(text, key))}})
        : key \in {ParseString(text, p)}})

\* Deserialize for CardStats: both fields are required
ParseCardStats(text, p) ==
    The({The({
        IF fields.p = 0 THEN ParseFail
        ELSE IF KeyCorrect \in DOMAIN fields.v /\ KeyIncorrect \in DOMAIN fields.v
            THEN [p |-> fields.p,
                  v |-> [correct |-> fields.v[KeyCorrect],
                         incorrect |-> fields.v[KeyIncorrect]]]
        ELSE ParseFail
        : fields \in {IF open = 0 THEN ParseFail
                      ELSE IF ExpectChar(text, open, "}") # 0
                          THEN [p |-> open + 1, v |-> <<>>]
                      ELSE ReadFields(text, open, <<>>)}})
        : open \in {ExpectChar(text, p, "{")}})

\* the entries "id":CardStats of the map up to its closing brace; a key
\* given again replaces the entry (HashMap::insert)
RECURSIVE ReadEntries(_, _, _)
ReadEntries(text, p, acc) ==
    The({The({The({
        IF stats.p = 0 THEN ParseFail
        ELSE IF ExpectChar(text, stats.p, ",") # 0
            THEN ReadEntries(text, stats.p + 1, entries)
        ELSE IF ExpectChar(text, stats.p, "}") # 0
            THEN [p |-> stats.p + 1, v |-> entries]
        ELSE ParseFail
        : entries \in {IF stats.p = 0 THEN acc ELSE (key.v :> stats.v) @@ acc}})
        : stats \in {IF AfterColon(text, key) = 0 THEN ParseFail
                     ELSE ParseCardStats(text, AfterColon(text, key))}})
        : key \in {ParseString(text, p)}})

\* Deserialize for HashMap<CardId, CardStats>
ParseMap(text, p) ==
    The({IF open = 0 THEN ParseFail
         ELSE IF ExpectChar(text, open, "}") # 0 THEN [p |-> open + 1, v |-> <<>>]
         ELSE ReadEntries(text, open, <<>>)
         : open \in {ExpectChar(text, p, "{")}})

\* serde_json::from_str::<StatsJson>: the map, or not ok for a SerdeError
FromJson(text) ==
    The({The({
        IF map.p # 0 /\ ExpectChar(text, map.p, "}") = Len(text) + 1
        THEN [ok |-> TRUE, v |-> map.v]
        ELSE [ok |-> FALSE, v |-> <<>>]
        : map \in {IF key.p = 0 \/ key.v # KeyCardStats
                      \/ AfterColon(text, key) = 0 THEN ParseFail
                   ELSE ParseMap(text, AfterColon(text, key))}})
        : key \in {IF ExpectChar(text, 1, "{") = 0 THEN ParseFail
                   ELSE ParseString(text, 2)}})

\* Stats::load_from_file on a path at which the file system holds f:
\* std::fs::metadata is Err when nothing is there ("absent") and when the
\* path cannot be examined ("denied": a directory on the way is not
\* searchable); read_to_string is Err for an "unreadable" regular file
LoadFromFile(f) ==
    IF f.kind \in {"absent", "denied"}
    THEN [ok |-> TRUE, card_stats |-> <<>>, err |-> "None"]
    ELSE IF f.kind = "dir"
        THEN [ok |-> FALSE, card_stats |-> <<>>, err |-> "ConfigIsDir"]
    ELSE IF f.kind = "unreadable"
        THEN [ok |-> FALSE, card_stats |-> <<>>, err |-> "IoError"]
    ELSE The({IF json.ok
              THEN [ok |-> TRUE, card_stats |-> json.v, err |-> "None"]
              ELSE [ok |-> FALSE, card_stats |-> <<>>, err |-> "SerdeError"]
              : json \in {FromJson(f.text)}})

\* Stats::save_to_file: the outcomes of std::fs::write at a path holding f
SaveToFile(cs, f) ==
    LET written == {[ok |-> TRUE, err |-> "None",
                     file |-> [kind |-> "file", text |-> ToJson(cs, order)]] :
                        order \in KeyOrders(cs)}
        failed == {[ok |-> FALSE, err |-> "IoError", file |-> f]}
    IN  IF f.kind \in {"dir", "denied"} THEN failed
        ELSE IF f.kind = "unreadable" THEN written \cup failed
        ELSE written

(***************************************************************************)
(* weighted_list.rs: WeightedList.                                         *)
(***************************************************************************)
\* WeightedList::with_capacity
WithCapacity == [items |-> <<>>, total_weight |-> FZero]

\* add and change_weight without their assertion
WeightAlwaysAccepted(weight) == TRUE

\* the assertion of add and change_weight
WeightAccepted(weight) == FLeq(FZero, weight)

\* WeightedList::add
WLAdd(wl, item, weight) ==
    [items |-> Append(wl.items, [item |-> item, weight |-> weight]),
     total_weight |-> FAdd(wl.total_weight, weight)]

\* change_weight adding the new weight without taking the old one off
WLChangeWeightKeepsOld(wl, index, weight) ==
    [items |-> [wl.items EXCEPT ![index + 1].weight = weight],
     total_weight |-> FAdd(wl.total_weight, weight)]

\* WeightedList::change_weight, index 0-based
WLChangeWeight(wl, index, weight) ==
    LET old_weight == wl.items[index + 1].weight
    IN  [items |-> [wl.items EXCEPT ![index + 1].weight = weight],
         total_weight |-> FAdd(FSub(wl.total_weight, old_weight), weight)]

\* WeightedList::weights
Weights(wl) == [i \in DOMAIN wl.items |-> wl.items[i].weight]

\* the loop of random_index for one needle: the first slot (0-based) whose
\* running total exceeds the needle, or -1 for "Reached end without finding
\* match"
RECURSIVE ScanFrom(_, _, _, _)
ScanFrom(items, needle, i, running_total) ==
    IF i > Len(items) THEN -1
    ELSE LET rt == FAdd(running_total, items[i].weight)
         IN  IF FLess(needle, rt) THEN i - 1
             ELSE ScanFrom(items, needle, i + 1, rt)

RECURSIVE LCMOfDens(_, _)
LCMOfDens(items, i) ==
    IF i > Len(items) THEN 1 ELSE LCM(items[i].weight.d, LCMOfDens(items, i + 1))

\* rng.gen_range(0.0..total_weight): one needle for every interval between
\* two multiples of the finest unit in which the stored weights are whole
Needles(wl) ==
    LET unit == LCM(LCMOfDens(wl.items, 1), wl.total_weight.d)
        steps == (wl.total_weight.n * unit) \div wl.total_weight.d
    IN  {Frac(k, unit) : k \in 0..(steps - 1)}

\* random_index without the arm `1 => Some(0)`
RandomIndexAlwaysScans(wl) ==
    IF Len(wl.items) = 0 THEN {}
    ELSE IF Needles(wl) = {} THEN {-2}
    ELSE {ScanFrom(wl.items, needle, 1, FZero) : needle \in Needles(wl)}

\* RandomIndex for WeightedList: the indices (0-based) random_index can
\* return; the empty set stands for None, -1 for the panic of line 93 and
\* -2 for the panic of gen_range on the empty range 0.0..0.0
RandomIndexChoices(wl) ==
    IF Len(wl.items) = 0 THEN {}
    ELSE IF Len(wl.items) = 1 THEN {0}
    ELSE IF Needles(wl) = {} THEN {-2}
    ELSE {ScanFrom(wl.items, needle, 1, FZero) : needle \in Needles(wl)}

\* random_index reaches rng.gen_range (line 83) only in the arm for two or
\* more items
ConsultsRng(wl) == Len(wl.items) >= 2

\* RemoveRandom for WeightedList, for the index random_index returned
WLRemoveAt(wl, index) ==
    [items |-> SwapRemove(wl.items, index),
     total_weight |-> FSub(wl.total_weight, wl.items[index + 1].weight)]

\* IntoShuffleIter over a WeightedList run to exhaustion: every sequence of
\* ((item, weight), index) the repeated remove_random can yield
RECURSIVE IntoIterShuffledWL(_)
IntoIterShuffledWL(wl) ==
    IF Len(wl.items) = 0 THEN {<<>>}
    ELSE UNION {
        {<<[item |-> wl.items[index + 1].item,
            weight |-> wl.items[index + 1].weight,
            index |-> index]>> \o rest :
            rest \in IntoIterShuffledWL(WLRemoveAt(wl, index))} :
        index \in RandomIndexChoices(wl) \ {-1, -2}}

\* RemoveRandom for Vec run to exhaustion: every order of the elements
RECURSIVE IntoIterShuffledVec(_)
IntoIterShuffledVec(v) ==
    IF Len(v) = 0 THEN {<<>>}
    ELSE UNION {
        {<<v[k + 1]>> \o rest : rest \in IntoIterShuffledVec(SwapRemove(v, k))} :
        k \in 0..(Len(v) - 1)}

(***************************************************************************)
(* The decks a session is started with.                                    *)
(***************************************************************************)
Str1(c) == <<c>>

S1(c) == Single(Str1(c))

\* two decks with the faces F and B: the card of deck "t" has the front "q"
\* of the first card of deck "s" and the back "b" of its second card
ShadowDecks ==
    <<[name |-> <<"s">>,
       faces |-> <<Str1("F"), Str1("B")>>,
       cards |-> << <<S1("q"), S1("a")>>,
                    <<S1("r"), S1("b")>>,
                    <<S1("s"), S1("c")>>,
                    <<S1("t"), S1("d")>> >>],
      [name |-> <<"t">>,
       faces |-> <<Str1("F"), Str1("B")>>,
       cards |-> << <<S1("q"), S1("b")>> >>]>>

\* one deck whose backs are Multi faces, two of them the same alternatives
\* in a different order
MultiDecks ==
    <<[name |-> <<"m">>,
       faces |-> <<Str1("F"), Str1("B")>>,
       cards |-> << <<S1("1"), Multi(<<Str1("x"), Str1("y")>>)>>,
                    <<S1("2"), Multi(<<Str1("y"), Str1("x")>>)>>,
                    <<S1("3"), S1("z")>>,
                    <<S1("4"), Multi(<<Str1("w")>>)>> >>]>>

\* two decks naming the shared faces in a different order; one card has the
\* same value on both of its faces, one has a null face, one has a face X
\* that no other card exposes
TwoDecks ==
    <<[name |-> <<"d">>,
       faces |-> <<Str1("F"), Str1("B")>>,
       cards |-> << <<S1("a"), S1("a")>>,
                    <<S1("b"), S1("2")>> >>],
      [name |-> <<"e">>,
       faces |-> <<Str1("B"), Str1("F"), Str1("X")>>,
       cards |-> << <<S1("3"), S1("c"), NoFace>>,
                    <<S1("4"), S1("d"), S1("x")>> >>]>>

\* one deck of only 3 cards
ThreeCards ==
    <<[name |-> <<"c">>,
       faces |-> <<Str1("F"), Str1("B")>>,
       cards |-> << <<S1("1"), S1("a")>>,
                    <<S1("2"), S1("b")>>,
                    <<S1("3"), S1("c")>> >>]>>

\* one deck in which the fronts of two cards differ as Faces (Single and
\* Multi) and have the same display string "x, y"
CollideDecks ==
    <<[name |-> <<"c">>,
       faces |-> <<Str1("F"), Str1("B")>>,
       cards |-> << <<Single(<<"x", ",", " ", "y">>), S1("a")>>,
                    <<Multi(<<Str1("x"), Str1("y")>>), S1("b")>>,
                    <<S1("3"), S1("c")>>,
                    <<S1("4"), S1("d")>> >>]>>

Pools == {ShadowDecks, MultiDecks, TwoDecks, ThreeCards}

\* Option values
None == [some |-> FALSE, v |-> <<>>]

Some(x) == [some |-> TRUE, v |-> x]

\* Option<usize>::None
NoCount == [some |-> FALSE, v |-> 0]

\* the --faces arguments tried
FaceFilters == {None, Some(<<Str1("F")>>), Some(<<Str1("X")>>)}

\* the --faces arguments the iterator alone is tried with
IterFilters == FaceFilters \cup {Some(<<Str1("F"), Str1("B")>>)}

(***************************************************************************)
(* lib.rs: DeckCard, PromptCard, ModeArguments.                            *)
(***************************************************************************)
VARIABLES
    decks,                \* the loaded decks
    faces,                \* ModeArguments.faces: Option<Vec<String>>
    line,                 \* ModeArguments.line
    problem_count,        \* ModeArguments.problem_count: Option<usize>
    weighted_deck_cards,  \* MatchProblemIterator.weighted_deck_cards
    card_stats,           \* Stats.card_stats
    total_correct,        \* match_faces: total_correct
    total,                \* match_faces: total (unbounded mode)
    iteration,            \* match_faces: iterations of the for loop begun
    pc,                   \* where match_faces is
    draw,                 \* MatchProblemIterator::next: its locals at return
    problem,              \* the MatchProblem being shown
    index_answered,       \* show_match_problem_result: index_answered
    result,               \* the MatchProblemResult last returned
    returned,             \* what the last call of next() returned
    error,                \* the Err it, and match_faces, returned
    saves,                \* the maps written by Stats::save_to_file
    called,               \* the WeightedList or Stats method called last
    file,                 \* what the file system holds at the stats path
    recorded,             \* match_faces: the calls of match_result so far
    flash_deck_cards,     \* show_flashcards' deck_cards: Vec<DeckCard>
    deck_card_index,      \* show_flashcards' index: WrappingIndex over deck_cards
    face_index,           \* show_flashcard's index: WrappingIndex over faces
    needle                \* random_index: the needle gen_range returned last

vars == <<decks, faces, line, problem_count, weighted_deck_cards, card_stats,
          total_correct, total, iteration, pc, draw, problem, index_answered,
          result, returned, error, saves, called, file, recorded,
          flash_deck_cards, deck_card_index, face_index, needle>>

DeckCard(d, c) == [deck |-> d, card |-> c]

DeckOf(dc) == decks[dc.deck]

CardOf(dc) == decks[dc.deck].cards[dc.card]

\* From<&DeckCard> for CardId
CardId(dc) == CardIdGet(DeckOf(dc), CardOf(dc))

\* DeckCard::possible_faces: (index, face name, face) of every present face
PossibleFaces(ds, dc) ==
    LET card == ds[dc.deck].cards[dc.card]
        present == {i \in DOMAIN card : IsSome(card[i])}
        F[i \in 0..Len(card)] ==
            IF i = 0 THEN <<>>
            ELSE IF i \in present
                 THEN Append(F[i - 1], [index |-> i - 1,
                                        name |-> ds[dc.deck].faces[i],
                                        face |-> card[i]])
                 ELSE F[i - 1]
    IN  F[Len(card)]

\* the cards of all decks in load order
RECURSIVE FlattenFrom(_, _, _)
FlattenFrom(ds, d, c) ==
    IF d > Len(ds) THEN <<>>
    ELSE IF c > Len(ds[d].cards) THEN FlattenFrom(ds, d + 1, 1)
    ELSE <<DeckCard(d, c)>> \o FlattenFrom(ds, d, c + 1)

\* ModeArguments::new: deck_cards, the eligible (deck, card) pairs
DeckCards(ds, filter) ==
    LET all == FlattenFrom(ds, 1, 1)
    IN  IF ~filter.some THEN all
        ELSE SelectSeq(all, LAMBDA dc :
                \E k \in DOMAIN PossibleFaces(ds, dc) :
                    PossibleFaces(ds, dc)[k].name \in Range(filter.v))

(***************************************************************************)
(* modes/flashcards/mod.rs: WrappingIndex, a usize index into a borrowed   *)
(* backing.                                                                *)
(***************************************************************************)
\* no WrappingIndex built yet
NoIndex == [backing |-> <<>>, index |-> 0]

\* WrappingIndex::new
NewIndex(backing) == [backing |-> backing, index |-> 0]

\* max_index: backing.length() - 1; called on non-empty backings only,
\* so the usize subtraction does not overflow
MaxIndex(self) == Len(self.backing) - 1

NextIndex(self) ==
    IF self.index = MaxIndex(self) THEN 0 ELSE self.index + 1

PrevIndex(self) ==
    IF self.index = 0 THEN MaxIndex(self) ELSE self.index - 1

Increment(self) == [self EXCEPT !.index = NextIndex(self)]

Decrement(self) == [self EXCEPT !.index = PrevIndex(self)]

\* set that stores its argument as it is
SetIndexUnclamped(self, k) == [self EXCEPT !.index = k]

\* set: index.min(self.max_index())
SetIndex(self, k) ==
    [self EXCEPT !.index = IF k <= MaxIndex(self) THEN k ELSE MaxIndex(self)]

\* deref, then Index: backing[*index]
Current(self) == self.backing[self.index + 1]

(***************************************************************************)
(* modes/match_faces/iter.rs: MatchProblemIterator.                        *)
(***************************************************************************)
NoDeckCard == [deck |-> 0, card |-> 0]

NoPromptCard == [prompt |-> <<>>, deck_card |-> NoDeckCard, index |-> 0]

NoProblem ==
    [question |-> NoPromptCard, answers |-> <<>>, answer_index |-> 0,
     weights |-> None]

NoError == [kind |-> "None", question |-> <<>>, question_face |-> <<>>,
            deck_name |-> <<>>, answer_face |-> <<>>]

NoDraw ==
    [deck_card |-> NoDeckCard, index |-> 0,
     question_index |-> 0, answer_index |-> 0,
     question_face |-> <<>>, answer_face |-> <<>>,
     problem_question_face |-> NoFace, problem_answer_face |-> NoFace]

NoResult == [kind |-> "None", q |-> NoPromptCard, a |-> NoPromptCard]

\* no method of WeightedList or Stats called yet
NoCall ==
    [op |-> "none", item |-> NoDeckCard, index |-> 0, weight |-> FZero,
     rng |-> FALSE, outcome |-> "none"]

\* std::fs::metadata fails with NotFound: nothing at the path
NoFile == [kind |-> "absent", text |-> <<>>]

\* MatchProblemIterator::new: the list seeded with the weight of each card
RECURSIVE NewFrom(_, _, _, _)
NewFrom(ds, deck_cards, k, acc) ==
    IF k > Len(deck_cards) THEN acc
    ELSE LET dc == deck_cards[k]
             id == CardIdGet(ds[dc.deck], ds[dc.deck].cards[dc.card])
             cs == ForCardMut(acc.stats, id)
         IN  NewFrom(ds, deck_cards, k + 1,
                     [list |-> WLAdd(acc.list, dc, Weight(cs[id])),
                      stats |-> cs])

NewIterator(ds, deck_cards, stats) ==
    NewFrom(ds, deck_cards, 1, [list |-> WithCapacity, stats |-> stats])

\* deck.faces.iter().enumerate().find_map(|(i, face)|
\*     (face == name).and_then(|| deck_card.card[i].as_ref()))
FaceNamed(dc, name) ==
    LET deck == DeckOf(dc)
        card == CardOf(dc)
        hits == {i \in DOMAIN deck.faces : deck.faces[i] = name /\ IsSome(card[i])}
    IN  IF hits = {} THEN NoFace
        ELSE card[CHOOSE i \in hits : \A j \in hits : i <= j]

\* the first entry of a sequence that is in a set (<<>> when there is none)
FindIn(seq, set) ==
    LET hits == {i \in DOMAIN seq : seq[i] \in set}
    IN  IF hits = {} THEN <<>>
        ELSE <<seq[CHOOSE i \in hits : \A j \in hits : i <= j]>>

\* next() taking the branch of line 95 whatever self.faces is
FaceChoicesUnfiltered(dc, filter) ==
    LET possible_faces == PossibleFaces(decks, dc)
        orders == IntoIterShuffledVec(possible_faces)
    IN  {<<o[1], o[2]>> : o \in {x \in orders : Len(x) >= 2}}

\* next(), lines 74-99: the (question, answer) entries of possible_faces
\* that can be chosen; the expect()s fail when the set is empty
FaceChoices(dc, filter) ==
    LET possible_faces == PossibleFaces(decks, dc)
        orders == IntoIterShuffledVec(possible_faces)
    IN  IF filter.some
        THEN LET specified == {e \in Range(possible_faces) : e.name \in Range(filter.v)}
                 questions == UNION {Range(FindIn(o, specified)) : o \in orders}
             IN  UNION {
                    {<<q, a>> : a \in UNION {
                        Range(FindIn(o, {e \in Range(possible_faces) : e.index # q.index})) :
                        o \in orders}} :
                    q \in questions}
        ELSE {<<o[1], o[2]>> : o \in {x \in orders : Len(x) >= 2}}

\* next() without the check of lines 130-148
QuestionFaceNeverMatches(dc, question_face, problem_question_face) == FALSE

\* next(), lines 130-144
CardQuestionFaceMatchesProblem(dc, question_face, problem_question_face) ==
    LET card_question_face == FaceNamed(dc, question_face)
    IN  IF IsSome(card_question_face)
        THEN card_question_face = problem_question_face
        ELSE FALSE

\* next(), lines 110-153: the filter_map over the shuffled clone, stopped
\* by take(ANSWERS_PER_PROBLEM - 1); acc is the distractors accepted so far
RECURSIVE FilterMapTake(_, _, _, _, _)
FilterMapTake(order, k, seen_faces, acc, d) ==
    IF Len(acc) = ANSWERS_PER_PROBLEM - 1 \/ k > Len(order) THEN acc
    ELSE LET deck_card == order[k].item
             card_index == order[k].index
             card_answer_face == FaceNamed(deck_card, d.answer_face)
         IN  IF ~IsSome(card_answer_face)
             THEN FilterMapTake(order, k + 1, seen_faces, acc, d)
             ELSE IF card_answer_face \in Range(seen_faces)
             THEN FilterMapTake(order, k + 1, seen_faces, acc, d)
             ELSE IF CardQuestionFaceMatchesProblem(
                        deck_card, d.question_face, d.problem_question_face)
             THEN FilterMapTake(order, k + 1,
                                Append(seen_faces, card_answer_face), acc, d)
             ELSE FilterMapTake(order, k + 1,
                                Append(seen_faces, card_answer_face),
                                Append(acc, [face |-> card_answer_face,
                                             deck_card |-> deck_card,
                                             index |-> card_index,
                                             correct |-> FALSE]),
                                d)

\* next(), lines 101-153: answer_cards before the shuffle
AnswerCards(order, d) ==
    <<[face |-> d.problem_answer_face, deck_card |-> d.deck_card,
       index |-> d.index, correct |-> TRUE]>>
    \o FilterMapTake(order, 1, <<d.problem_answer_face>>, <<>>, d)

\* line 155 with the bound off by one
NotEnoughAnswersOffByOne(answer_cards) ==
    Len(answer_cards) < ANSWERS_PER_PROBLEM - 1

\* next(), line 155
NotEnoughAnswers(answer_cards) == Len(answer_cards) < ANSWERS_PER_PROBLEM

\* the position the correct entry had before the shuffle
AnswerIndexBeforeShuffle(answer_cards) == 0

\* next(), lines 162-166: position of the first entry flagged correct
AnswerIndex(answer_cards) ==
    (CHOOSE i \in DOMAIN answer_cards :
        /\ answer_cards[i].correct
        /\ \A j \in DOMAIN answer_cards : answer_cards[j].correct => i <= j) - 1

\* the prompts join_random can give entries k.. of the shuffled answer_cards
RECURSIVE AnswerPrompts(_, _)
AnswerPrompts(shuffled, k) ==
    IF k > Len(shuffled) THEN {<<>>}
    ELSE {<<prompt>> \o rest :
            prompt \in JoinRandomPrompts(shuffled[k].face),
            rest \in AnswerPrompts(shuffled, k + 1)}

\* next(), lines 168-190: the problems that can be assembled from the
\* shuffled answer_cards, one for every outcome of the join_random calls
Problems(d, shuffled, wl, with_line) ==
    {[question |-> [prompt |-> qp, deck_card |-> d.deck_card, index |-> d.index],
      answers |-> [i \in 1..Len(shuffled) |->
                     [card |-> [prompt |-> ap[i],
                                deck_card |-> shuffled[i].deck_card,
                                index |-> shuffled[i].index],
                      correct |-> shuffled[i].correct]],
      answer_index |-> AnswerIndex(shuffled),
      weights |-> IF with_line THEN Some(Weights(wl)) ELSE None] :
        qp \in JoinRandomPrompts(d.problem_question_face),
        ap \in AnswerPrompts(shuffled, 1)}

\* next() taking the chosen question entry for the answer as well
DrawsAnswerIsQuestion(wl, filter) ==
    UNION {
        {[deck_card |-> wl.items[index + 1].item, index |-> index,
          question_index |-> qa[1].index, answer_index |-> qa[1].index,
          question_face |-> qa[1].name, answer_face |-> qa[1].name,
          problem_question_face |-> qa[1].face,
          problem_answer_face |-> qa[1].face] :
            qa \in FaceChoices(wl.items[index + 1].item, filter)} :
        index \in RandomIndexChoices(wl) \ {-1, -2}}

\* the locals of next() once the card and the faces are chosen
Draws(wl, filter) ==
    UNION {
        {[deck_card |-> wl.items[index + 1].item, index |-> index,
          question_index |-> qa[1].index, answer_index |-> qa[2].index,
          question_face |-> qa[1].name, answer_face |-> qa[2].name,
          problem_question_face |-> qa[1].face,
          problem_answer_face |-> qa[2].face] :
            qa \in FaceChoices(wl.items[index + 1].item, filter)} :
        index \in RandomIndexChoices(wl) \ {-1, -2}}

\* the DeckMismatch error of line 157
DeckMismatch(d) ==
    [kind |-> "DeckMismatch",
     question |-> FaceToString(d.problem_question_face),
     question_face |-> d.question_face,
     deck_name |-> DeckOf(d.deck_card).name,
     answer_face |-> d.answer_face]

\* Iterator::next for MatchProblemIterator: every value it can return,
\* together with the locals it was computed from
NextResults(wl, filter, with_line) ==
    IF RandomIndexChoices(wl) = {}
    THEN {[kind |-> "None", draw |-> NoDraw, problem |-> NoProblem, error |-> NoError]}
    ELSE LET orders == IntoIterShuffledWL(wl)
             shuffles == Perms(ANSWERS_PER_PROBLEM)
         IN  UNION {
                UNION {
                    IF NotEnoughAnswers(answer_cards)
                    THEN {[kind |-> "Err", draw |-> d, problem |-> NoProblem,
                           error |-> DeckMismatch(d)]}
                    ELSE UNION {
                            {[kind |-> "Ok", draw |-> d, problem |-> pr,
                              error |-> NoError] :
                                pr \in Problems(d, Permute(answer_cards, p), wl, with_line)} :
                            p \in IF Len(answer_cards) = ANSWERS_PER_PROBLEM
                                  THEN shuffles ELSE Perms(Len(answer_cards))} :
                    answer_cards \in {AnswerCards(order, d) : order \in orders}} :
                d \in Draws(wl, filter)}

(***************************************************************************)
(* modes/match_faces/mod.rs: the session.                                  *)
(***************************************************************************)
\* the stats maps Stats::load_from_user_home is tried with: no file, and a
\* file with history for the first two cards of the first deck
LoadedStats(ds) ==
    {<<>>,
     (CardIdGet(ds[1], ds[1].cards[1]) :> [correct |-> 1, incorrect |-> 0])
        @@ (CardIdGet(ds[1], ds[1].cards[2]) :> [correct |-> 0, incorrect |-> 2])}

\* update_correct incrementing the other counter
UpdateCorrectWrongCounter(card, st) ==
    LET id == CardId(card.deck_card)
        cs == ForCardMut(st.stats, id)
        stats == [cs[id] EXCEPT !.incorrect = @ + 1]
    IN  [st EXCEPT !.stats = [cs EXCEPT ![id] = stats],
                   !.list = WLChangeWeight(st.list, card.index, Weight(stats))]

\* update_correct: the stats map and the list after the call
UpdateCorrect(card, st) ==
    LET id == CardId(card.deck_card)
        cs == ForCardMut(st.stats, id)
        stats == [cs[id] EXCEPT !.correct = @ + 1]
    IN  [st EXCEPT !.stats = [cs EXCEPT ![id] = stats],
                   !.list = WLChangeWeight(st.list, card.index, Weight(stats))]

\* update_incorrect incrementing the other counter
UpdateIncorrectWrongCounter(card, st) ==
    LET id == CardId(card.deck_card)
        cs == ForCardMut(st.stats, id)
        stats == [cs[id] EXCEPT !.correct = @ + 1]
    IN  [st EXCEPT !.stats = [cs EXCEPT ![id] = stats],
                   !.list = WLChangeWeight(st.list, card.index, Weight(stats))]

\* update_incorrect
UpdateIncorrect(card, st) ==
    LET id == CardId(card.deck_card)
        cs == ForCardMut(st.stats, id)
        stats == [cs[id] EXCEPT !.incorrect = @ + 1]
    IN  [st EXCEPT !.stats = [cs EXCEPT ![id] = stats],
                   !.list = WLChangeWeight(st.list, card.index, Weight(stats))]

\* match_result
MatchResult(res, st) ==
    IF res.kind = "Correct"
    THEN [UpdateCorrect(res.q, st) EXCEPT !.total_correct = @ + 1]
    ELSE UpdateIncorrect(res.a, UpdateIncorrect(res.q, st))

SessionState ==
    [stats |-> card_stats, list |-> weighted_deck_cards,
     total_correct |-> total_correct]

\* the arguments of the session, and its locals before the first iteration
InitWith(pools, filters, lines, counts) ==
    /\ decks \in {ds \in pools : LoadDecksOk(ds)}
    /\ faces \in filters
    /\ line \in lines
    /\ problem_count \in counts
    /\ total_correct = 0
    /\ total = 0
    /\ iteration = 0
    /\ draw = NoDraw
    /\ problem = NoProblem
    /\ index_answered = 0
    /\ result = NoResult
    /\ returned = "nothing"
    /\ error = NoError
    /\ saves = <<>>
    /\ called = NoCall
    /\ file = NoFile
    /\ recorded = 0
    /\ flash_deck_cards = <<>>
    /\ deck_card_index = NoIndex
    /\ face_index = NoIndex
    /\ needle = FZero

\* Stats::load_from_user_home and MatchProblemIterator::new
InitIterator ==
    \E loaded \in LoadedStats(decks) :
        LET it == NewIterator(decks, DeckCards(decks, faces), loaded)
        IN  /\ weighted_deck_cards = it.list
            /\ card_stats = it.stats

\* a session of match_faces
Init ==
    /\ InitWith({TwoDecks, ThreeCards}, FaceFilters, {FALSE},
                {NoCount} \cup {Some(n) : n \in 0..MaxProblems})
    /\ InitIterator
    /\ pc = "loop"

Config == <<decks, faces, line, problem_count>>

\* the state of the flashcards mode
Flashcards == <<flash_deck_cards, deck_card_index, face_index>>

\* the counted loop written 0..=count: one iteration too many
LoopRunsOneMore ==
    IF problem_count.some THEN iteration <= problem_count.v
    ELSE iteration < MaxProblems

\* the for loop has iterations left (the unbounded loop is cut off after
\* MaxProblems iterations)
LoopRuns ==
    IF problem_count.some THEN iteration < problem_count.v
    ELSE iteration < MaxProblems

\* problems.next() returns a value of the given kind
CallNext(kind) ==
    \E r \in NextResults(weighted_deck_cards, faces, line) :
        /\ r.kind = kind
        /\ returned' = kind
        /\ problem' = r.problem
        /\ draw' = r.draw
        /\ error' = r.error

\* stats.save_to_file()?; Ok((total_correct, total))
SaveAndReturn ==
    /\ saves' = Append(saves, card_stats)
    /\ total' = IF problem_count.some THEN problem_count.v ELSE total
    /\ pc' = "done"
    /\ problem' = NoProblem
    /\ index_answered' = 0

\* the counted for loop is exhausted
LoopExhausted ==
    /\ pc = "loop"
    /\ problem_count.some
    /\ iteration = problem_count.v
    /\ SaveAndReturn
    /\ UNCHANGED <<Config, Flashcards, called, file, recorded, needle, weighted_deck_cards, card_stats, total_correct,
                   iteration, draw, result, returned, error>>

\* problems.next() returns None: break
NextNone ==
    /\ pc = "loop"
    /\ LoopRuns
    /\ RandomIndexChoices(weighted_deck_cards) = {}
    /\ returned' = "None"
    /\ draw' = NoDraw
    /\ SaveAndReturn
    /\ UNCHANGED <<Config, Flashcards, called, file, recorded, needle, weighted_deck_cards, card_stats, total_correct,
                   iteration, result, error>>

\* problems.next() returns Some(Err(..)): `problem?` returns the error
NextErr ==
    /\ pc = "loop"
    /\ LoopRuns
    /\ CallNext("Err")
    /\ pc' = "failed"
    /\ index_answered' = 0
    /\ UNCHANGED <<Config, Flashcards, called, file, recorded, needle, weighted_deck_cards, card_stats, total_correct,
                   total, iteration, result, saves>>

\* next() shuffling the session list itself and not a clone of it: the list
\* is drained
NextOkDrainsList ==
    /\ pc = "loop"
    /\ LoopRuns
    /\ CallNext("Ok")
    /\ pc' = "problem"
    /\ iteration' = iteration + 1
    /\ index_answered' = 0
    /\ weighted_deck_cards' = WithCapacity
    /\ UNCHANGED <<Config, Flashcards, called, file, recorded, needle, card_stats, total_correct,
                   total, result, saves>>

\* problems.next() returns Some(Ok(problem)): show_match_problem renders it
NextOk ==
    /\ pc = "loop"
    /\ LoopRuns
    /\ CallNext("Ok")
    /\ pc' = "problem"
    /\ iteration' = iteration + 1
    /\ index_answered' = 0
    /\ UNCHANGED <<Config, Flashcards, called, file, recorded, needle, weighted_deck_cards, card_stats, total_correct,
                   total, result, saves>>

\* show_match_problem: UserInput::Answer(index_answered)
Answer(i) ==
    /\ pc = "problem"
    /\ index_answered' = i
    /\ pc' = "result"
    /\ UNCHANGED <<Config, Flashcards, called, file, recorded, needle, weighted_deck_cards, card_stats, total_correct,
                   total, iteration, draw, problem, result, returned, error,
                   saves>>

\* show_match_problem: UserInput::Quit
QuitProblem ==
    /\ pc = "problem"
    /\ result' = [kind |-> "Quit", q |-> NoPromptCard, a |-> NoPromptCard]
    /\ SaveAndReturn
    /\ UNCHANGED <<Config, Flashcards, called, file, recorded, needle, weighted_deck_cards, card_stats, total_correct,
                   iteration, draw, returned, error>>

\* show_match_problem_result, lines 160-174: the MatchResult returned when
\* the learner leaves the result screen
ProblemResult(pr, answered) ==
    IF answered = pr.answer_index
    THEN [kind |-> "Correct", q |-> pr.question, a |-> NoPromptCard]
    ELSE [kind |-> "Incorrect", q |-> pr.question,
          a |-> pr.answers[answered + 1].card]

\* show_match_problem_result: UserInput::Answer(answer_index) leaves the
\* result screen; match_faces records the result
Confirm ==
    /\ pc = "result"
    /\ LET res == ProblemResult(problem, index_answered)
           st == MatchResult(res, SessionState)
       IN  /\ result' = res
           /\ card_stats' = st.stats
           /\ weighted_deck_cards' = st.list
           /\ total_correct' = st.total_correct
    /\ total' = IF problem_count.some THEN total ELSE total + 1
    /\ recorded' = recorded + 1
    /\ pc' = "loop"
    /\ problem' = NoProblem
    /\ index_answered' = 0
    /\ UNCHANGED <<Config, Flashcards, called, file, needle, iteration, draw, returned, error,
                   saves>>

\* show_match_problem_result: UserInput::Quit
QuitResult ==
    /\ pc = "result"
    /\ result' = [kind |-> "Quit", q |-> NoPromptCard, a |-> NoPromptCard]
    /\ SaveAndReturn
    /\ UNCHANGED <<Config, Flashcards, called, file, recorded, needle, weighted_deck_cards, card_stats, total_correct,
                   iteration, draw, returned, error>>

Next ==
    \/ LoopExhausted
    \/ NextNone
    \/ NextErr
    \/ NextOk
    \/ \E i \in 0..(ANSWERS_PER_PROBLEM - 1) : Answer(i)
    \/ QuitProblem
    \/ Confirm
    \/ QuitResult

Spec == Init /\ [][Next]_vars

\* a step of the session, told by the control position alone: every action
\* of Next leaves the position it is taken at, and at the head of the loop
\* either the count is exhausted or next() is called and returns
Advance ==
    /\ pc \in {"loop", "problem", "result"}
    /\ pc = "loop" => (problem_count.some \/ LoopRuns)
    /\ pc' \in {"loop", "problem", "result", "done", "failed"}
    /\ pc' # pc

\* the sessions started with a problem count and a face filter
InitCounted ==
    /\ InitWith({TwoDecks, ThreeCards}, FaceFilters \ {None}, {FALSE},
                {Some(n) : n \in 0..MaxProblems})
    /\ InitIterator
    /\ pc = "loop"

\* the counted session with a program that keeps running and a learner who
\* eventually presses a key on every screen shown
FairSpec == InitCounted /\ [][Next]_vars /\ WF_pc(Advance)

(***************************************************************************)
(* A session of one problem, over decks in which two cards have the same   *)
(* CardId.                                                                 *)
(***************************************************************************)
InitAnswer ==
    /\ InitWith({CollideDecks, ThreeCards}, FaceFilters, {FALSE}, {Some(1)})
    /\ InitIterator
    /\ pc = "loop"

SpecAnswer == InitAnswer /\ [][Next]_vars

(***************************************************************************)
(* The iterator alone, called again and again as by the tests of iter.rs.  *)
(***************************************************************************)
InitIter ==
    /\ InitWith(Pools, IterFilters, BOOLEAN, {NoCount})
    /\ InitIterator
    /\ pc = "iter"

Session == <<weighted_deck_cards, card_stats, total_correct, total, iteration,
             pc, index_answered, result, saves>>

\* the loop of the test calls next()
IterOk ==
    /\ pc = "iter"
    /\ returned = "nothing"
    /\ CallNext("Ok")
    /\ UNCHANGED <<Config, Flashcards, called, file, recorded, needle, Session>>

IterErr ==
    /\ pc = "iter"
    /\ returned = "nothing"
    /\ CallNext("Err")
    /\ UNCHANGED <<Config, Flashcards, called, file, recorded, needle, Session>>

IterNone ==
    /\ pc = "iter"
    /\ returned = "nothing"
    /\ CallNext("None")
    /\ UNCHANGED <<Config, Flashcards, called, file, recorded, needle, Session>>

\* the body of the loop ends: the value returned is dropped
IterDrop ==
    /\ pc = "iter"
    /\ returned # "nothing"
    /\ returned' = "nothing"
    /\ problem' = NoProblem
    /\ draw' = NoDraw
    /\ error' = NoError
    /\ UNCHANGED <<Config, Flashcards, called, file, recorded, needle, Session>>

NextIter == IterOk \/ IterErr \/ IterNone \/ IterDrop

SpecIter == InitIter /\ [][NextIter]_vars

(***************************************************************************)
(* update_correct and update_incorrect alone, on a list of two cards.      *)
(***************************************************************************)
\* the first two cards of the first deck; the first has any history
InitStats ==
    /\ InitWith({TwoDecks}, {None}, {FALSE}, {NoCount})
    /\ pc = "stats"
    /\ \E c, i \in 0..MaxStat :
        LET deck_cards == SubSeq(DeckCards(decks, faces), 1, 2)
            loaded == CardId(deck_cards[1]) :> [correct |-> c, incorrect |-> i]
            it == NewIterator(decks, deck_cards, loaded)
        IN  /\ weighted_deck_cards = it.list
            /\ card_stats = it.stats

\* the PromptCard of slot k (0-based) of the list
SlotCard(k) ==
    [prompt |-> FrontString(CardOf(weighted_deck_cards.items[k + 1].item)),
     deck_card |-> weighted_deck_cards.items[k + 1].item,
     index |-> k]

StatsOf(k) == card_stats[CardId(weighted_deck_cards.items[k + 1].item)]

RecordCorrect(k) ==
    /\ pc = "stats"
    /\ StatsOf(k).correct < MaxStat
    /\ LET res == [kind |-> "Correct", q |-> SlotCard(k), a |-> NoPromptCard]
           st == UpdateCorrect(res.q, SessionState)
       IN  /\ result' = res
           /\ card_stats' = st.stats
           /\ weighted_deck_cards' = st.list
    /\ UNCHANGED <<Config, Flashcards, called, file, recorded, needle, total_correct, total, iteration, pc, draw, problem,
                   index_answered, returned, error, saves>>

RecordIncorrect(k) ==
    /\ pc = "stats"
    /\ StatsOf(k).incorrect < MaxStat
    /\ LET res == [kind |-> "Incorrect", q |-> SlotCard(k), a |-> NoPromptCard]
           st == UpdateIncorrect(res.q, SessionState)
       IN  /\ result' = res
           /\ card_stats' = st.stats
           /\ weighted_deck_cards' = st.list
    /\ UNCHANGED <<Config, Flashcards, called, file, recorded, needle, total_correct, total, iteration, pc, draw, problem,
                   index_answered, returned, error, saves>>

NextStats ==
    \/ \E k \in 0..(Len(weighted_deck_cards.items) - 1) : RecordCorrect(k)
    \/ \E k \in 0..(Len(weighted_deck_cards.items) - 1) : RecordIncorrect(k)

SpecStats == InitStats /\ [][NextStats]_vars

(***************************************************************************)
(* weighted_list.rs: a WeightedList driven on its own, as by its tests.    *)
(***************************************************************************)
\* the items and the weights the methods are called with
ListItems == {DeckCard(1, 1), DeckCard(1, 2)}

ListWeights == {Frac(-1, 1), FZero, Frac(1, 2), Frac(2, 1)}

\* WeightedList::with_capacity (WeightedList::default in the tests)
InitList ==
    /\ InitWith({TwoDecks}, {None}, {FALSE}, {NoCount})
    /\ weighted_deck_cards = WithCapacity
    /\ card_stats = <<>>
    /\ pc = "list"

Library == <<total_correct, total, iteration, draw, problem, index_answered,
             result, returned, error, saves, file, card_stats, recorded>>

\* list.add((item, weight)): the assertion, then the push
ListAdd(item, weight) ==
    /\ pc = "list"
    /\ Len(weighted_deck_cards.items) < MaxItems
    /\ IF WeightAccepted(weight)
       THEN /\ weighted_deck_cards' = WLAdd(weighted_deck_cards, item, weight)
            /\ called' = [op |-> "add", item |-> item, index |-> 0,
                          weight |-> weight, rng |-> FALSE, outcome |-> "Ok"]
            /\ pc' = pc
       ELSE /\ weighted_deck_cards' = weighted_deck_cards
            /\ called' = [op |-> "add", item |-> item, index |-> 0,
                          weight |-> weight, rng |-> FALSE, outcome |-> "panic"]
            /\ pc' = "panicked"
    /\ UNCHANGED <<Config, Flashcards, Library, needle>>

\* list.change_weight(index, weight): the assertion, the bounds check of
\* self.items[index], then the update
ListChangeWeight(index, weight) ==
    /\ pc = "list"
    /\ IF WeightAccepted(weight) /\ index < Len(weighted_deck_cards.items)
       THEN /\ weighted_deck_cards' = WLChangeWeight(weighted_deck_cards, index, weight)
            /\ called' = [op |-> "change_weight",
                          item |-> weighted_deck_cards.items[index + 1].item,
                          index |-> index, weight |-> weight, rng |-> FALSE,
                          outcome |-> "Ok"]
            /\ pc' = pc
       ELSE /\ weighted_deck_cards' = weighted_deck_cards
            /\ called' = [op |-> "change_weight", item |-> NoDeckCard,
                          index |-> index, weight |-> weight, rng |-> FALSE,
                          outcome |-> "panic"]
            /\ pc' = "panicked"
    /\ UNCHANGED <<Config, Flashcards, Library, needle>>

\* what get_random and remove_random return for an outcome of random_index
RandomCall(op, wl, choice) ==
    IF choice < 0
    THEN [op |-> op, item |-> NoDeckCard, index |-> 0, weight |-> FZero,
          rng |-> ConsultsRng(wl), outcome |-> "panic"]
    ELSE [op |-> op, item |-> wl.items[choice + 1].item, index |-> choice,
          weight |-> wl.items[choice + 1].weight,
          rng |-> ConsultsRng(wl), outcome |-> "Some"]

RandomNone(op) ==
    [op |-> op, item |-> NoDeckCard, index |-> 0, weight |-> FZero,
     rng |-> FALSE, outcome |-> "None"]

\* (&list).get_random(rng)
ListGetRandom ==
    /\ pc = "list"
    /\ LET choices == RandomIndexChoices(weighted_deck_cards)
       IN  IF choices = {}
           THEN /\ called' = RandomNone("get_random")
                /\ pc' = pc
           ELSE \E choice \in choices :
                /\ called' = RandomCall("get_random", weighted_deck_cards, choice)
                /\ pc' = IF choice < 0 THEN "panicked" ELSE pc
    /\ UNCHANGED <<Config, Flashcards, Library, needle, weighted_deck_cards>>

\* list.remove_random(rng)
ListRemoveRandom ==
    /\ pc = "list"
    /\ LET choices == RandomIndexChoices(weighted_deck_cards)
       IN  IF choices = {}
           THEN /\ called' = RandomNone("remove_random")
                /\ weighted_deck_cards' = weighted_deck_cards
                /\ pc' = pc
           ELSE \E choice \in choices :
                /\ called' = RandomCall("remove_random", weighted_deck_cards, choice)
                /\ weighted_deck_cards' =
                        IF choice < 0 THEN weighted_deck_cards
                        ELSE WLRemoveAt(weighted_deck_cards, choice)
                /\ pc' = IF choice < 0 THEN "panicked" ELSE pc
    /\ UNCHANGED <<Config, Flashcards, Library, needle>>

NextList ==
    \/ \E item \in ListItems, weight \in ListWeights : ListAdd(item, weight)
    \/ \E index \in 0..(MaxItems - 1), weight \in ListWeights :
            ListChangeWeight(index, weight)
    \/ ListGetRandom
    \/ ListRemoveRandom

SpecList == InitList /\ [][NextList]_vars

(***************************************************************************)
(* weighted_list.rs: a WeightedList driven on its own with the arithmetic  *)
(* of f64: total_weight and the running total of the scan are rounded      *)
(* after every addition and subtraction.                                   *)
(***************************************************************************)
\* the weights CardStats::weight gives, as floating-point values
FloatWeights ==
    {FZero} \cup {RoundNearest(Weight([correct |-> c, incorrect |-> i])) :
                    c \in 0..2, i \in 0..1}

\* WeightedList::add in f64
WLAddF64(wl, item, weight) ==
    [items |-> Append(wl.items, [item |-> item, weight |-> weight]),
     total_weight |-> F64Add(wl.total_weight, weight)]

\* WeightedList::change_weight in f64
WLChangeWeightF64(wl, index, weight) ==
    [items |-> [wl.items EXCEPT ![index + 1].weight = weight],
     total_weight |->
        F64Add(F64Sub(wl.total_weight, wl.items[index + 1].weight), weight)]

\* running_total after the first i slots of the scan
RECURSIVE RunningTotal(_, _)
RunningTotal(items, i) ==
    IF i = 0 THEN FZero
    ELSE F64Add(RunningTotal(items, i - 1), items[i].weight)

\* the loop of random_index in f64: the first slot (0-based) whose running
\* total exceeds the needle, or -1 for "Reached end without finding match"
ScanF64(items, drawn) ==
    LET hits == {i \in DOMAIN items : FLess(drawn, RunningTotal(items, i))}
    IN  IF hits = {} THEN -1
        ELSE (CHOOSE i \in hits : \A j \in hits : i <= j) - 1

\* rng.gen_range(0.0..total_weight): a value of every interval between two
\* consecutive running totals, the only values the scan compares the
\* needle with
NeedlesF64(wl) ==
    {drawn \in {RunningTotal(wl.items, i) : i \in 0..Len(wl.items)} :
        FLess(drawn, wl.total_weight)}

InitFloat ==
    /\ InitWith({TwoDecks}, {None}, {FALSE}, {NoCount})
    /\ weighted_deck_cards = WithCapacity
    /\ card_stats = <<>>
    /\ pc = "float"

\* the locals of the session that the list does not touch
Locals == <<total_correct, total, draw, problem, index_answered, result,
            returned, error, saves, file, card_stats, recorded>>

\* list.add((item, weight)), as by MatchProblemIterator::new: the cards of
\* the decks in load order, before any change_weight
FloatAdd(weight) ==
    /\ pc = "float"
    /\ iteration = 0
    /\ Len(weighted_deck_cards.items) < MaxItems
    /\ LET item == DeckCards(decks, faces)[Len(weighted_deck_cards.items) + 1]
       IN  /\ weighted_deck_cards' = WLAddF64(weighted_deck_cards, item, weight)
           /\ called' = [op |-> "add", item |-> item, index |-> 0,
                         weight |-> weight, rng |-> FALSE, outcome |-> "Ok"]
    /\ UNCHANGED <<Config, Flashcards, Locals, iteration, needle, pc>>

\* list.change_weight(index, weight)
FloatChangeWeight(index, weight) ==
    /\ pc = "float"
    /\ iteration < MaxChanges
    /\ iteration' = iteration + 1
    /\ index < Len(weighted_deck_cards.items)
    /\ weighted_deck_cards' = WLChangeWeightF64(weighted_deck_cards, index, weight)
    /\ called' = [op |-> "change_weight",
                  item |-> weighted_deck_cards.items[index + 1].item,
                  index |-> index, weight |-> weight, rng |-> FALSE,
                  outcome |-> "Ok"]
    /\ UNCHANGED <<Config, Flashcards, Locals, needle, pc>>

\* (&list).get_random(rng) on a list of two or more items whose
\* total_weight is above 0
FloatGetRandom ==
    /\ pc = "float"
    /\ Len(weighted_deck_cards.items) >= 2
    /\ FLess(FZero, weighted_deck_cards.total_weight)
    /\ \E drawn \in NeedlesF64(weighted_deck_cards) :
        /\ needle' = drawn
        /\ called' = RandomCall("get_random", weighted_deck_cards,
                                ScanF64(weighted_deck_cards.items, drawn))
        /\ pc' = IF ScanF64(weighted_deck_cards.items, drawn) < 0
                 THEN "panicked" ELSE pc
    /\ UNCHANGED <<Config, Flashcards, Locals, iteration, weighted_deck_cards>>

NextFloat ==
    \/ \E weight \in FloatWeights : FloatAdd(weight)
    \/ \E index \in 0..(MaxItems - 1), weight \in FloatWeights :
            FloatChangeWeight(index, weight)
    \/ FloatGetRandom

SpecFloat == InitFloat /\ [][NextFloat]_vars

(***************************************************************************)
(* stats.rs: a Stats built or loaded, looked up, saved and loaded again,   *)
(* as by tests::save_load_file.                                            *)
(***************************************************************************)
\* the CardIds of the maps: "d:a", and the id of a front holding a quote and
\* a backslash
StoreIds == {<<"d", ":", "a">>, <<"d", ":", Quote, Backslash>>}

\* the counter values of the maps
StoreCounts == {0, MaxStat - 1, MaxStat}

\* the maps a session can have built by for_card_mut and its increments
StoreMaps ==
    UNION {[ids -> [correct : StoreCounts, incorrect : StoreCounts]] :
            ids \in SUBSET StoreIds}

\* texts that are not the JSON of a StatsJson: the empty file, an object
\* without card_stats, a text cut short, an entry without `incorrect`
MalformedTexts ==
    {<<>>,
     <<"{", "}">>,
     <<"{">> \o Quoted(KeyCardStats) \o <<":", "{">>,
     <<"{">> \o Quoted(KeyCardStats) \o <<":", "{">> \o Quoted(<<"d", ":", "a">>)
        \o <<":", "{">> \o Quoted(KeyCorrect) \o <<":", "1", "}", "}", "}">>}

\* what the file system can hold at the stats path when a session starts
InitialFiles ==
    {NoFile,
     [kind |-> "denied", text |-> <<>>],
     [kind |-> "dir", text |-> <<>>],
     [kind |-> "unreadable", text |-> <<>>],
     [kind |-> "file", text |-> ToJson(<<>>, <<>>)]}
    \cup {[kind |-> "file", text |-> text] : text \in MalformedTexts}

InitStore ==
    /\ decks = TwoDecks
    /\ faces = None
    /\ line = FALSE
    /\ problem_count = NoCount
    /\ weighted_deck_cards = WithCapacity
    /\ card_stats = <<>>
    /\ total_correct = 0
    /\ total = 0
    /\ iteration = 0
    /\ pc = "start"
    /\ draw = NoDraw
    /\ problem = NoProblem
    /\ index_answered = 0
    /\ result = NoResult
    /\ returned = "nothing"
    /\ error = NoError
    /\ saves = <<>>
    /\ called = NoCall
    /\ file \in InitialFiles
    /\ recorded = 0
    /\ flash_deck_cards = <<>>
    /\ deck_card_index = NoIndex
    /\ face_index = NoIndex
    /\ needle = FZero

Session2 == <<weighted_deck_cards, total_correct, total, iteration, draw,
              problem, index_answered, result, recorded, needle>>

\* Stats::new(path), followed by the for_card_mut calls and increments of a
\* session: any of the maps
StoreNew(map) ==
    /\ pc = "start"
    /\ card_stats' = map
    /\ called' = [NoCall EXCEPT !.op = "new", !.outcome = "Ok"]
    /\ returned' = "Ok"
    /\ pc' = "store"
    /\ UNCHANGED <<Config, Flashcards, Session2, error, saves, file>>

\* Stats::load_from_file(path), by a process that holds no Stats
StoreLoad ==
    /\ pc \in {"start", "saved"}
    /\ \E loaded \in {LoadFromFile(file)} :
           /\ card_stats' = loaded.card_stats
           /\ returned' = IF loaded.ok THEN "Ok" ELSE "Err"
           /\ error' = [NoError EXCEPT !.kind = loaded.err]
           /\ called' = [NoCall EXCEPT !.op = "load_from_file",
                                       !.outcome = IF loaded.ok THEN "Ok" ELSE "Err"]
           /\ pc' = IF loaded.ok THEN "store" ELSE "failed"
    /\ UNCHANGED <<Config, Flashcards, Session2, saves, file>>

\* stats.for_card(id): the entry is created when absent
StoreForCard(id) ==
    /\ pc = "store"
    /\ card_stats' = ForCardMut(card_stats, id)
    /\ called' = [NoCall EXCEPT !.op = "for_card", !.outcome = "Ok"]
    /\ UNCHANGED <<Config, Flashcards, Session2, returned, error, saves, file, pc>>

\* stats.save_to_file(): the Stats is consumed; one save per run
StoreSave ==
    /\ pc = "store"
    /\ Len(saves) = 0
    /\ \E saved \in SaveToFile(card_stats, file) :
        /\ file' = saved.file
        /\ saves' = IF saved.ok THEN Append(saves, card_stats) ELSE saves
        /\ returned' = IF saved.ok THEN "Ok" ELSE "Err"
        /\ error' = [NoError EXCEPT !.kind = saved.err]
        /\ called' = [NoCall EXCEPT !.op = "save_to_file",
                                    !.outcome = IF saved.ok THEN "Ok" ELSE "Err"]
        /\ pc' = IF saved.ok THEN "saved" ELSE "failed"
    /\ card_stats' = <<>>
    /\ UNCHANGED <<Config, Flashcards, Session2>>

NextStore ==
    \/ \E map \in StoreMaps : StoreNew(map)
    \/ StoreLoad
    \/ \E id \in StoreIds : StoreForCard(id)
    \/ StoreSave

SpecStore == InitStore /\ [][NextStore]_vars

(***************************************************************************)
(* deck.rs: load_decks on deck files of every kind, as by its tests.       *)
(***************************************************************************)
\* the `faces` arrays of the deck files
CandidateFaceNames ==
    {<<Str1("F")>>, <<Str1("F"), Str1("B")>>, <<Str1("F"), Str1("F")>>,
     <<Str1("F"), Str1("B"), Str1("X")>>}

\* the cards of the deck files: good cards of two and three faces, cards
\* with too few entries or too few present entries, and cards with an
\* empty list, an empty string, or a list holding an empty string
CandidateCards ==
    {<<S1("a"), S1("b")>>,
     <<S1("b"), S1("a")>>,
     <<NoFace, S1("a"), S1("b")>>,
     <<S1("a"), S1("b"), NoFace>>,
     <<S1("a"), NoFace>>,
     <<S1("a")>>,
     <<Multi(<<Str1("a")>>), S1("b")>>,
     <<Multi(<<>>), S1("a"), S1("b")>>,
     <<S1("c"), Single(<<>>)>>,
     <<S1("d"), Multi(<<Str1("a"), <<>> >>)>>}

\* the `cards` arrays: no card, one card, two cards
CandidateCardLists ==
    {<<>>} \cup {<<c>> : c \in CandidateCards}
           \cup {<<c1, c2>> : c1, c2 \in CandidateCards}

\* the lists of decks read from the paths: one deck of any kind, or two
\* decks with the same name or different names
CandidateDeckLists ==
    {<<[name |-> <<"d">>, faces |-> f, cards |-> cs]>> :
        f \in CandidateFaceNames, cs \in CandidateCardLists}
    \cup {<<[name |-> <<"d">>, faces |-> <<Str1("F"), Str1("B")>>, cards |-> cs1],
            [name |-> n, faces |-> f, cards |-> cs2]>> :
            n \in {<<"d">>, <<"e">>},
            f \in {<<Str1("F"), Str1("B")>>, <<Str1("F")>>},
            cs1, cs2 \in {<<>>, << <<S1("a"), S1("b")>> >>,
                          << <<S1("a"), S1("b")>>, <<S1("b"), S1("a")>> >>,
                          << <<S1("a"), S1("b")>>, <<S1("a"), S1("b")>> >>}}

InitDecks ==
    /\ decks \in CandidateDeckLists
    /\ faces = None
    /\ line = FALSE
    /\ problem_count = NoCount
    /\ weighted_deck_cards = WithCapacity
    /\ card_stats = <<>>
    /\ total_correct = 0
    /\ total = 0
    /\ iteration = 0
    /\ pc = "load"
    /\ draw = NoDraw
    /\ problem = NoProblem
    /\ index_answered = 0
    /\ result = NoResult
    /\ returned = "nothing"
    /\ error = NoError
    /\ saves = <<>>
    /\ called = NoCall
    /\ file = NoFile
    /\ recorded = 0
    /\ flash_deck_cards = <<>>
    /\ deck_card_index = NoIndex
    /\ face_index = NoIndex
    /\ needle = FZero

\* load_decks(paths)
LoadDecksCall ==
    /\ pc = "load"
    /\ pc' = "loaded"
    /\ returned' = IF LoadDecks(decks) = "Ok" THEN "Ok" ELSE "Err"
    /\ error' = IF LoadDecks(decks) = "Ok" THEN NoError
                ELSE [NoError EXCEPT !.kind = LoadDecks(decks)]
    /\ UNCHANGED <<Config, Flashcards, Session2, card_stats, saves, called, file>>

NextDecks == LoadDecksCall

SpecDecks == InitDecks /\ [][NextDecks]_vars

(***************************************************************************)
(* modes/flashcards/mod.rs: show_flashcards and show_flashcard, driven by  *)
(* the user's inputs.                                                      *)
(***************************************************************************)
\* the card lists show_match_problem_result hands over: the cards of the
\* answers, one of them, or none
RECURSIVE CardLists(_)
CardLists(n) ==
    IF n = 0 THEN {<<>>}
    ELSE CardLists(n - 1) \cup
         {Append(l, dc) : l \in {m \in CardLists(n - 1) : Len(m) = n - 1},
                          dc \in Range(DeckCards(TwoDecks, None))}

InitFlashcards ==
    /\ decks = TwoDecks
    /\ faces = None
    /\ line = FALSE
    /\ problem_count = NoCount
    /\ weighted_deck_cards = WithCapacity
    /\ card_stats = <<>>
    /\ total_correct = 0
    /\ total = 0
    /\ iteration = 0
    /\ pc = "flashcards"
    /\ draw = NoDraw
    /\ problem = NoProblem
    /\ index_answered = 0
    /\ result = NoResult
    /\ returned = "nothing"
    /\ error = NoError
    /\ saves = <<>>
    /\ called = NoCall
    /\ file = NoFile
    /\ recorded = 0
    /\ flash_deck_cards \in CardLists(MaxCards)
    /\ deck_card_index = NoIndex
    /\ face_index = NoIndex
    /\ needle = FZero

Quiz == <<weighted_deck_cards, card_stats, total_correct, total, iteration, draw,
          problem, index_answered, result, error, saves, file, recorded, needle>>

\* show_flashcards up to the first call of show_flashcard, which builds
\* the index over the faces of the current card
ShowFlashcards ==
    /\ pc = "flashcards"
    /\ called' = [NoCall EXCEPT !.op = "show_flashcards"]
    /\ IF flash_deck_cards = <<>>
       THEN /\ pc' = "done"
            /\ returned' = "Ok"
            /\ UNCHANGED <<deck_card_index, face_index>>
       ELSE /\ pc' = "show"
            /\ deck_card_index' = NewIndex(flash_deck_cards)
            /\ face_index' = NewIndex(PossibleFaces(decks, Current(NewIndex(flash_deck_cards))))
            /\ UNCHANGED returned
    /\ UNCHANGED <<Config, Quiz, flash_deck_cards>>

\* UserInput::NextFace
NextFace ==
    /\ pc = "show"
    /\ face_index' = Increment(face_index)
    /\ called' = [NoCall EXCEPT !.op = "NextFace", !.index = face_index.index]
    /\ UNCHANGED <<Config, Quiz, flash_deck_cards, deck_card_index, pc, returned>>

\* UserInput::PrevFace
PrevFace ==
    /\ pc = "show"
    /\ face_index' = Decrement(face_index)
    /\ called' = [NoCall EXCEPT !.op = "PrevFace", !.index = face_index.index]
    /\ UNCHANGED <<Config, Quiz, flash_deck_cards, deck_card_index, pc, returned>>

\* match_user_input on a digit key: the digit less one, saturating
ExactFaceOf(digit) == IF digit = 0 THEN 0 ELSE digit - 1

\* UserInput::ExactFace(exact_index)
ExactFace(digit) ==
    /\ pc = "show"
    /\ face_index' = SetIndex(face_index, ExactFaceOf(digit))
    /\ called' = [NoCall EXCEPT !.op = "ExactFace", !.index = ExactFaceOf(digit)]
    /\ UNCHANGED <<Config, Quiz, flash_deck_cards, deck_card_index, pc, returned>>

\* UserInput::Resize: continue
Resize ==
    /\ pc = "show"
    /\ called' = [NoCall EXCEPT !.op = "Resize"]
    /\ UNCHANGED <<Config, Quiz, Flashcards, pc, returned>>

\* UserInput::NextCard: show_flashcard returns Action::Next, the index is
\* incremented and show_flashcard is called on the card it indexes
NextCard ==
    /\ pc = "show"
    /\ deck_card_index' = Increment(deck_card_index)
    /\ face_index' = NewIndex(PossibleFaces(decks, Current(Increment(deck_card_index))))
    /\ called' = [NoCall EXCEPT !.op = "NextCard", !.index = deck_card_index.index]
    /\ UNCHANGED <<Config, Quiz, flash_deck_cards, pc, returned>>

\* UserInput::PrevCard: Action::Prev
PrevCard ==
    /\ pc = "show"
    /\ deck_card_index' = Decrement(deck_card_index)
    /\ face_index' = NewIndex(PossibleFaces(decks, Current(Decrement(deck_card_index))))
    /\ called' = [NoCall EXCEPT !.op = "PrevCard", !.index = deck_card_index.index]
    /\ UNCHANGED <<Config, Quiz, flash_deck_cards, pc, returned>>

\* UserInput::Quit: Action::Quit breaks the loop
QuitFlashcards ==
    /\ pc = "show"
    /\ pc' = "done"
    /\ returned' = "Ok"
    /\ called' = [NoCall EXCEPT !.op = "Quit"]
    /\ UNCHANGED <<Config, Quiz, Flashcards>>

NextFlashcards ==
    \/ ShowFlashcards
    \/ NextFace
    \/ PrevFace
    \/ \E digit \in 0..9 : ExactFace(digit)
    \/ Resize
    \/ NextCard
    \/ PrevCard
    \/ QuitFlashcards

SpecFlashcards == InitFlashcards /\ [][NextFlashcards]_vars

(***************************************************************************)
(* Properties.                                                             *)
(***************************************************************************)
Items == weighted_deck_cards.items

\* the PromptCards of the problem returned: the question and the answers
PromptCards ==
    {problem.question} \cup {problem.answers[i].card : i \in DOMAIN problem.answers}

\* the card stored at the 0-based slot p.index of the session list is the
\* card of the PromptCard p
IndexIsPosition(p) ==
    /\ p.index + 1 \in DOMAIN Items
    /\ Items[p.index + 1].item = p.deck_card

\* C1: in every problem next() returns Ok, the index of the question and
\* of each of the 4 answers is the position of that PromptCard's card in
\* the session WeightedList.
C1_IndexIsPosition ==
    returned = "Ok" => \A p \in PromptCards : IndexIsPosition(p)

\* the stats entry of the card stored at 1-based slot i (zero-valued when
\* the map has none)
SlotStats(cs, items, i) ==
    LET id == CardId(items[i].item)
    IN  IF id \in DOMAIN cs THEN cs[id] ELSE DefaultCardStats

\* C2: throughout a session, the weight stored in every slot of the
\* session WeightedList is CardStats::weight() of the current stats entry
\* of the card stored in that slot.
C2_WeightsFollowStats ==
    \A i \in DOMAIN Items :
        Items[i].weight = Weight(SlotStats(card_stats, Items, i))

\* C3: in every problem next() returns Ok, the 4 answer prompt strings are
\* pairwise distinct.
C3_AnswerPromptsDistinct ==
    returned = "Ok" =>
        \A i, j \in DOMAIN problem.answers :
            i # j => problem.answers[i].card.prompt # problem.answers[j].card.prompt

\* C4: in every problem next() returns Ok, exactly one answer is flagged
\* true, answer_index is its position after the shuffle, and its card and
\* container index are those of the question.
C4_OneCorrectAnswer ==
    returned = "Ok" =>
        /\ Cardinality({i \in DOMAIN problem.answers : problem.answers[i].correct}) = 1
        /\ problem.answer_index \in 0..(ANSWERS_PER_PROBLEM - 1)
        /\ problem.answer_index + 1 \in DOMAIN problem.answers
        /\ problem.answers[problem.answer_index + 1].correct
        /\ problem.answers[problem.answer_index + 1].card.deck_card
                = problem.question.deck_card
        /\ problem.answers[problem.answer_index + 1].card.index
                = problem.question.index

\* a problem whose correct answer the shuffle moved off the first position
C4_Witness ==
    /\ returned = "Ok"
    /\ problem.answer_index = 2
    /\ problem.answers[3].correct

\* C5: in every problem next() returns Ok, no answer flagged false belongs
\* to a card whose value on the question-face name equals the question-face
\* value of the problem card.
C5_NoDistractorSharesQuestion ==
    returned = "Ok" =>
        \A i \in DOMAIN problem.answers :
            ~problem.answers[i].correct =>
                FaceNamed(problem.answers[i].card.deck_card, draw.question_face)
                    # draw.problem_question_face

\* a problem returned Ok although another card of the list has the question
\* value of the problem card
C5_Witness ==
    /\ returned = "Ok"
    /\ \E i \in DOMAIN Items :
        /\ Items[i].item # draw.deck_card
        /\ FaceNamed(Items[i].item, draw.question_face) = draw.problem_question_face
        /\ IsSome(FaceNamed(Items[i].item, draw.answer_face))
        /\ FaceNamed(Items[i].item, draw.answer_face) # draw.problem_answer_face

\* C6: in every problem next() returns Ok, none of the 4 answer prompt
\* strings equals the question prompt string.
C6_QuestionNotAmongAnswers ==
    returned = "Ok" =>
        \A i \in DOMAIN problem.answers :
            problem.answers[i].card.prompt # problem.question.prompt

\* the answer-face values carried by the cards of the session list
AnswerValues ==
    {FaceNamed(Items[i].item, draw.answer_face) : i \in DOMAIN Items} \ {NoFace}

\* C7: next() never returns Ok with a number of answers other than 4; when
\* the cards exposing the answer face carry fewer than 4 distinct values,
\* and whenever it fails, it returns DeckMismatch.
C7_FourAnswersOrMismatch ==
    /\ returned = "Ok" =>
        /\ Len(problem.answers) = ANSWERS_PER_PROBLEM
        /\ Cardinality({i \in DOMAIN problem.answers : ~problem.answers[i].correct})
                = ANSWERS_PER_PROBLEM - 1
    /\ returned = "Err" =>
        /\ error.kind = "DeckMismatch"
        /\ problem = NoProblem
    /\ (returned \in {"Ok", "Err"} /\ Cardinality(AnswerValues) < ANSWERS_PER_PROBLEM)
            => returned = "Err"

\* next() returned DeckMismatch for an answer face that only 3 cards expose
C7_Witness ==
    /\ returned = "Err"
    /\ error.kind = "DeckMismatch"
    /\ Cardinality({i \in DOMAIN Items :
            IsSome(FaceNamed(Items[i].item, draw.answer_face))}) = 3

\* the card is a valid distractor for the draw: it exposes the answer face
\* with a value other than the correct one and does not have the question
\* value of the problem card
ValidDistractor(dc) ==
    /\ IsSome(FaceNamed(dc, draw.answer_face))
    /\ FaceNamed(dc, draw.answer_face) # draw.problem_answer_face
    /\ FaceNamed(dc, draw.question_face) # draw.problem_question_face

\* C8: next() returns DeckMismatch only when the scanned cards do not
\* contain 3 valid distractors with pairwise distinct answer values.
C8_MismatchOnlyWhenImpossible ==
    returned = "Err" =>
        ~ \E i, j, k \in DOMAIN Items :
            /\ ValidDistractor(Items[i].item)
            /\ ValidDistractor(Items[j].item)
            /\ ValidDistractor(Items[k].item)
            /\ FaceNamed(Items[i].item, draw.answer_face)
                    # FaceNamed(Items[j].item, draw.answer_face)
            /\ FaceNamed(Items[i].item, draw.answer_face)
                    # FaceNamed(Items[k].item, draw.answer_face)
            /\ FaceNamed(Items[j].item, draw.answer_face)
                    # FaceNamed(Items[k].item, draw.answer_face)

\* C9: the weight of every CardStats, and every weight stored in the list,
\* is strictly greater than 0.
C9_WeightPositive ==
    /\ \A id \in DOMAIN card_stats : FLess(FZero, Weight(card_stats[id]))
    /\ \A i \in DOMAIN Items : FLess(FZero, Items[i].weight)

\* a card answered correctly far more often than incorrectly, next to a
\* card answered incorrectly more often than correctly
C9_Witness ==
    /\ pc = "stats"
    /\ \E id \in DOMAIN card_stats :
        card_stats[id].correct >= 5 /\ card_stats[id].incorrect = 0
    /\ \E id \in DOMAIN card_stats :
        card_stats[id].incorrect > card_stats[id].correct

\* C10: update_correct on a card with stats {c, i} leaves stats {c + 1, i}
\* and a weight, computed and stored in the card's slot, strictly below
\* the weight of {c, i}.
C10_CorrectLowersWeight ==
    [][(pc = "stats" /\ result'.kind = "Correct") =>
        LET k == result'.q.index + 1
            before == SlotStats(card_stats, Items, k)
            after == SlotStats(card_stats', Items, k)
        IN  /\ after = [correct |-> before.correct + 1,
                        incorrect |-> before.incorrect]
            /\ FLess(Weight(after), Weight(before))
            /\ weighted_deck_cards'.items[k].weight = Weight(after)
            /\ FLess(weighted_deck_cards'.items[k].weight, Items[k].weight)]_vars

\* the case of the spec: {2, 0} has become {3, 0}
C10_Witness ==
    /\ pc = "stats"
    /\ result.kind = "Correct"
    /\ SlotStats(card_stats, Items, result.q.index + 1)
            = [correct |-> 3, incorrect |-> 0]

\* C11: update_incorrect on a card with stats {c, i} leaves stats {c, i + 1};
\* with c <= i the weight, computed and stored in the card's slot, is exactly
\* 1 above the weight of {c, i}, and with c > i it is strictly above it.
C11_IncorrectRaisesWeight ==
    [][(pc = "stats" /\ result'.kind = "Incorrect") =>
        LET k == result'.q.index + 1
            before == SlotStats(card_stats, Items, k)
            after == SlotStats(card_stats', Items, k)
        IN  /\ after = [correct |-> before.correct,
                        incorrect |-> before.incorrect + 1]
            /\ weighted_deck_cards'.items[k].weight = Weight(after)
            /\ before.correct <= before.incorrect =>
                    /\ Weight(after) = FAdd(Weight(before), Frac(1, 1))
                    /\ weighted_deck_cards'.items[k].weight
                            = FAdd(Items[k].weight, Frac(1, 1))
            /\ FLess(Weight(before), Weight(after))
            /\ FLess(Items[k].weight, weighted_deck_cards'.items[k].weight)]_vars

\* the case of the spec: {0, 0}, of weight 1, has become {0, 1}, of weight 2
C11_Witness ==
    /\ pc = "stats"
    /\ result.kind = "Incorrect"
    /\ SlotStats(card_stats, Items, result.q.index + 1)
            = [correct |-> 0, incorrect |-> 1]
    /\ Items[result.q.index + 1].weight = Frac(2, 1)

\* the sum of the weights stored in items
RECURSIVE SumWeights(_, _)
SumWeights(items, i) ==
    IF i > Len(items) THEN FZero
    ELSE FAdd(items[i].weight, SumWeights(items, i + 1))

\* C12: get_random on an empty list returns None, on a list of one item it
\* returns that item with index 0 whatever its weight, and in neither case
\* is the random source consulted
C12_GetRandomSmallLists ==
    called.op = "get_random" =>
        /\ Len(Items) = 0 => called.outcome = "None" /\ ~called.rng
        /\ Len(Items) = 1 =>
            /\ called.outcome = "Some"
            /\ called.index = 0
            /\ called.item = Items[1].item
            /\ ~called.rng

C12_Witness ==
    /\ called.op = "get_random"
    /\ called.outcome = "Some"
    /\ Len(Items) = 1
    /\ Items[1].weight = FZero

\* C13: after any sequence of add, change_weight and remove_random the
\* total_weight of the list is the sum of the weights stored in its items
C13_TotalIsSum ==
    pc \in {"list", "panicked"} =>
        weighted_deck_cards.total_weight = SumWeights(Items, 1)

C13_Witness ==
    /\ called.op = "change_weight"
    /\ called.outcome = "Ok"
    /\ Len(Items) = 2
    /\ Items[1].weight # Items[2].weight
    /\ weighted_deck_cards.total_weight # FZero

\* the CardId of the question card and of the card of the option selected
QuestionId == CardId(problem.question.deck_card)

SelectedId == CardId(problem.answers[index_answered + 1].card.deck_card)

\* the step by which the learner leaves the result screen and match_faces
\* records the result
Recorded == pc = "result" /\ pc' = "loop"

\* the stats map has the same keys, and the counters of a correct answer:
\* only `correct` of the question card is changed, by +1
CorrectRecorded ==
    /\ DOMAIN card_stats' = DOMAIN card_stats
    /\ \A id \in DOMAIN card_stats :
        /\ card_stats'[id].incorrect = card_stats[id].incorrect
        /\ card_stats'[id].correct =
                card_stats[id].correct + (IF id = QuestionId THEN 1 ELSE 0)

\* C14: after a correct answer only the question card's `correct`
\* counter changes (+1); after an incorrect one exactly the `incorrect`
\* counters of the question card and of the card of the option selected
\* change, +1 each; every other counter is unchanged
C14_CountersPlusOneEach ==
    [][Recorded =>
        IF index_answered = problem.answer_index THEN CorrectRecorded
        ELSE /\ DOMAIN card_stats' = DOMAIN card_stats
             /\ \A id \in DOMAIN card_stats :
                /\ card_stats'[id].correct = card_stats[id].correct
                /\ card_stats'[id].incorrect =
                        card_stats[id].incorrect
                        + (IF id \in {QuestionId, SelectedId} THEN 1 ELSE 0)]_vars

\* the session is over: match_faces has returned Ok or Err
Terminated == pc \in {"done", "failed"}

\* C15: Stats::load_from_file on the path a Stats was saved to returns Ok
\* with the map that was saved: the same CardIds, with the same correct and
\* incorrect counters
C15_SaveLoadRoundTrip ==
    (called.op = "load_from_file" /\ Len(saves) = 1) =>
        /\ returned = "Ok"
        /\ DOMAIN card_stats = DOMAIN saves[1]
        /\ \A id \in DOMAIN card_stats :
            /\ card_stats[id].correct = saves[1][id].correct
            /\ card_stats[id].incorrect = saves[1][id].incorrect

\* a map of two CardIds, one of them with characters JSON escapes, and a
\* counter of two digits, saved and loaded
C15_Witness ==
    /\ called.op = "load_from_file"
    /\ Len(saves) = 1
    /\ returned = "Ok"
    /\ DOMAIN card_stats = StoreIds
    /\ \E id \in DOMAIN card_stats : card_stats[id].incorrect = MaxStat

\* C16: a counted session never presents more than problem_count problems;
\* the session is over as soon as the learner quits or next() returns None,
\* and takes no step once it is over; and, with a learner who eventually answers or quits, a counted session
\* terminates
C16_SessionStops ==
    /\ [](problem_count.some => iteration <= problem_count.v)
    /\ []((result.kind = "Quit" \/ returned = "None") => pc = "done")
    /\ [][~Terminated]_vars
    /\ (problem_count.some ~> Terminated)

\* a counted session that ended because its count was reached
C16_Witness ==
    /\ pc = "done"
    /\ problem_count.some
    /\ problem_count.v >= 1
    /\ iteration = problem_count.v
    /\ result.kind \in {"Correct", "Incorrect"}

\* C17: the stats map is written exactly once per session, when the session
\* ends, however it ends: count exhausted, quit, empty list, or DeckMismatch
C17_SavedOnceOnEveryExit ==
    /\ Terminated => Len(saves) = 1
    /\ ~Terminated => Len(saves) = 0

\* C18: load_from_file returns the empty Stats when nothing is at the path;
\* when the path is there and cannot be examined or read, is not a regular
\* file, or does not hold the stats JSON, it returns IoError, ConfigIsDir or
\* SerdeError
C18_EmptyOnlyWhenAbsent ==
    (called.op = "load_from_file" /\ Len(saves) = 0) =>
        /\ file.kind = "absent" => returned = "Ok" /\ card_stats = <<>>
        /\ file.kind \in {"denied", "unreadable"} =>
                returned = "Err" /\ error.kind = "IoError"
        /\ file.kind = "dir" => returned = "Err" /\ error.kind = "ConfigIsDir"
        /\ (file.kind = "file" /\ file.text \in MalformedTexts) =>
                returned = "Err" /\ error.kind = "SerdeError"

\* C19: with a face filter set, the question face of every problem returned
\* Ok is named in the filter, and the answer face is another present face of
\* the drawn card, which the filter does not restrict
C19_QuestionFaceInFilter ==
    (returned = "Ok" /\ faces.some) =>
        /\ draw.question_face \in Range(faces.v)
        /\ draw.answer_face # draw.question_face
        /\ IsSome(draw.problem_answer_face)
        /\ FaceNamed(draw.deck_card, draw.answer_face) = draw.problem_answer_face
        /\ FaceNamed(draw.deck_card, draw.question_face) = draw.problem_question_face

\* a problem whose answer face is not named in the filter
C19_Witness ==
    /\ returned = "Ok"
    /\ faces.some
    /\ draw.question_face \in Range(faces.v)
    /\ draw.answer_face \notin Range(faces.v)

\* C20: add and change_weight called with a weight below 0 fail their
\* assertion and leave items, weights and total_weight as they were
C20_NegativeWeightRejected ==
    [][(called'.op \in {"add", "change_weight"} /\ FLess(called'.weight, FZero))
        => (called'.outcome = "panic" /\ pc' = "panicked"
            /\ weighted_deck_cards' = weighted_deck_cards)]_vars

C20_Witness ==
    /\ pc = "panicked"
    /\ called.op = "change_weight"
    /\ FLess(called.weight, FZero)
    /\ called.index < Len(Items)

\* C21: once the learner has selected an option, the result of the problem
\* is recorded before the result screen is left: the step that leaves the
\* screen, a quit included, increments the counters and pushes the weights
C21_SelectionRecorded ==
    [][(pc = "result" /\ pc' # "result") =>
        LET st == MatchResult(ProblemResult(problem, index_answered), SessionState)
        IN  /\ card_stats' = st.stats
            /\ weighted_deck_cards' = st.list
            /\ recorded' = recorded + 1]_vars

\* the cards of all loaded decks, and the cards next() scans for
\* distractors: the items of the clone of the session list
AllDeckCards == Range(FlattenFrom(decks, 1, 1))

Candidates == {Items[i].item : i \in DOMAIN Items}

\* C22: when next() has drawn a question card and its faces, every card of
\* every loaded deck that exposes the answer-face name is among the cards
\* scanned for distractors, in the eligible pool or not
C22_CandidatesFromAllDecks ==
    returned \in {"Ok", "Err"} =>
        \A dc \in AllDeckCards :
            IsSome(FaceNamed(dc, draw.answer_face)) => dc \in Candidates

\* C23: in every problem next() returns Ok, with a face filter or
\* without, the question face and the answer face are two different face
\* indices of the drawn card, and both faces are present on that card
C23_TwoPresentFaces ==
    returned = "Ok" =>
        LET card == CardOf(draw.deck_card)
        IN  /\ draw.question_index # draw.answer_index
            /\ draw.question_index + 1 \in DOMAIN card
            /\ draw.answer_index + 1 \in DOMAIN card
            /\ IsSome(card[draw.question_index + 1])
            /\ IsSome(card[draw.answer_index + 1])
            /\ card[draw.question_index + 1] = draw.problem_question_face
            /\ card[draw.answer_index + 1] = draw.problem_answer_face
            /\ DeckOf(draw.deck_card).faces[draw.question_index + 1] = draw.question_face
            /\ DeckOf(draw.deck_card).faces[draw.answer_index + 1] = draw.answer_face

\* a problem under a face filter for a card one of whose faces is null
C23_Witness ==
    /\ returned = "Ok"
    /\ faces.some
    /\ PresentCount(CardOf(draw.deck_card)) < Len(CardOf(draw.deck_card))

\* the items of a list, without their weights
ItemsOf(wl) == [i \in DOMAIN wl.items |-> wl.items[i].item]

\* C24: a call of next(), whatever it returns, leaves the session list as
\* it was: the items, their order, their weights and total_weight; and in a
\* whole session the list keeps its length and its items, and is altered
\* only by the change_weight calls of a recorded result
C24_NextLeavesList ==
    [][/\ pc = "loop" => weighted_deck_cards' = weighted_deck_cards
       /\ ItemsOf(weighted_deck_cards') = ItemsOf(weighted_deck_cards)
       /\ weighted_deck_cards' # weighted_deck_cards => Recorded]_vars

\* a session in which next() returned a problem from a list of 4 cards and
\* its result was recorded
C24_Witness ==
    /\ pc = "done"
    /\ returned = "Ok"
    /\ recorded = 1
    /\ Len(Items) = 4

\* how many slots of a list hold the entry
CountOf(items, entry) == Cardinality({i \in DOMAIN items : items[i] = entry})

\* the entry remove_random has returned
Removed == [item |-> called'.item, weight |-> called'.weight]

\* C25: on a list whose weights are all >= 0, remove_random returns None
\* when the list is empty; otherwise it returns an item of the list with
\* its weight, removes exactly that entry, shortens the list by one and
\* lowers total_weight by that weight, so that n calls return every item
\* once
C25_RemoveRandomDrains ==
    [][called'.op = "remove_random" =>
        IF Len(Items) = 0
        THEN called'.outcome = "None" /\ weighted_deck_cards' = weighted_deck_cards
        ELSE /\ called'.outcome = "Some"
             /\ CountOf(Items, Removed) >= 1
             /\ Len(weighted_deck_cards'.items) = Len(Items) - 1
             /\ \A entry \in Range(Items) :
                    CountOf(weighted_deck_cards'.items, entry)
                        = CountOf(Items, entry) - (IF entry = Removed THEN 1 ELSE 0)
             /\ weighted_deck_cards'.total_weight
                    = FSub(weighted_deck_cards.total_weight, called'.weight)]_vars

\* C26: on a list of two or more items with total_weight > 0, get_random
\* with a needle in [0, total_weight) returns the smallest index whose
\* running total of the weights exceeds the needle, with the item stored
\* there; so it never returns an item of weight 0 and never reaches the
\* panic "Reached end without finding match"
C26_SmallestIndexAboveNeedle ==
    (called.op = "get_random" /\ pc \in {"float", "panicked"}) =>
        /\ called.outcome = "Some"
        /\ called.index + 1 \in DOMAIN Items
        /\ called.item = Items[called.index + 1].item
        /\ FLess(needle, RunningTotal(Items, called.index + 1))
        /\ \A i \in 1..called.index : ~FLess(needle, RunningTotal(Items, i))
        /\ Items[called.index + 1].weight # FZero

\* the invariants of the data model that a deck has on its own
DeckInvariant(deck) ==
    /\ Len(deck.faces) >= 2
    /\ \A i, j \in DOMAIN deck.faces : deck.faces[i] = deck.faces[j] => i = j
    /\ \A c \in DOMAIN deck.cards :
        /\ Len(deck.cards[c]) = Len(deck.faces)
        /\ PresentCount(deck.cards[c]) >= 2
    /\ \A a, b \in DOMAIN deck.cards :
        Front(deck.cards[a]) = Front(deck.cards[b]) => a = b

DeckNamesDistinct == \A i, j \in DOMAIN decks : decks[i].name = decks[j].name => i = j

\* the invariant the error names is violated by a deck of the list
ErrorMatches(kind) ==
    CASE kind = "NotEnoughFaces" -> \E d \in DOMAIN decks : Len(decks[d].faces) < 2
      [] kind = "DuplicateFace" ->
            \E d \in DOMAIN decks : \E i, j \in DOMAIN decks[d].faces :
                i # j /\ decks[d].faces[i] = decks[d].faces[j]
      [] kind = "TooManyFaces" ->
            \E d \in DOMAIN decks : \E c \in DOMAIN decks[d].cards :
                Len(decks[d].cards[c]) > Len(decks[d].faces)
      [] kind = "NotEnoughFaces(card)" ->
            \E d \in DOMAIN decks : \E c \in DOMAIN decks[d].cards :
                Len(decks[d].cards[c]) < Len(decks[d].faces)
      [] kind = "NotEnoughUsableFaces" ->
            \E d \in DOMAIN decks : \E c \in DOMAIN decks[d].cards :
                PresentCount(decks[d].cards[c]) < 2
      [] kind = "EmptyFace" ->
            \E d \in DOMAIN decks : \E c \in DOMAIN decks[d].cards :
                Multi(<<>>) \in Range(decks[d].cards[c])
      [] kind = "DuplicateFront" ->
            \E d \in DOMAIN decks : \E a, b \in DOMAIN decks[d].cards :
                a # b /\ Front(decks[d].cards[a]) = Front(decks[d].cards[b])
      [] kind = "DuplicateDeckNames" -> ~DeckNamesDistinct
      [] OTHER -> FALSE

\* C27: the decks load_decks returns Ok have at least 2 faces with no
\* name twice, cards of as many entries as faces with at least 2 present,
\* no two cards with equal first present faces, and pairwise distinct
\* names; a list with a deck that violates one of these is rejected, with
\* an error that names an invariant the list violates
C27_LoadedDecksValid ==
    pc = "loaded" =>
        /\ returned = "Ok" =>
            (DeckNamesDistinct /\ \A d \in DOMAIN decks : DeckInvariant(decks[d]))
        /\ ~(DeckNamesDistinct /\ \A d \in DOMAIN decks : DeckInvariant(decks[d])) =>
            (returned = "Err" /\ ErrorMatches(error.kind))

\* two good decks of different names, each with two cards, are loaded
C27_Witness ==
    /\ pc = "loaded"
    /\ returned = "Ok"
    /\ Len(decks) = 2
    /\ \A d \in DOMAIN decks : Len(decks[d].cards) >= 1
    /\ \E d \in DOMAIN decks : Len(decks[d].cards) = 2

\* C28: in the decks load_decks returns Ok every present face is
\* non-empty: no Single face is the empty string, no Multi face is the
\* empty list or holds an empty string
C28_PresentFacesNonEmpty ==
    (pc = "loaded" /\ returned = "Ok") =>
        \A d \in DOMAIN decks : \A c \in DOMAIN decks[d].cards :
            \A i \in DOMAIN decks[d].cards[c] :
                LET face == decks[d].cards[c][i]
                IN  IsSome(face) =>
                        /\ Len(face.v) > 0
                        /\ \A k \in DOMAIN face.v : Len(face.v[k]) > 0

\* C29: the pair match_faces returns has total_correct <= total, and total
\* is the number of problems whose result was recorded, with and without a
\* problem count and also after a quit or a None
C29_TotalIsRecorded ==
    pc = "done" =>
        /\ total_correct <= total
        /\ total = recorded

\* the index of a WrappingIndex is a position of its backing
InBacking(self) == self.index \in 0..(Len(self.backing) - 1)

\* what increment makes of the index i of a backing of length n
Wrapped(i, n) == IF i = n - 1 THEN 0 ELSE i + 1

\* what decrement makes of the index i of a backing of length n
WrappedBack(i, n) == IF i = 0 THEN n - 1 ELSE i - 1

\* C30: while cards are shown both indices, over the non-empty card list
\* and over the non-empty faces of the current card, are positions of
\* their backing; increment adds one and wraps from n-1 to 0, decrement
\* subtracts one and wraps from 0 to n-1, set(k) stores min(k, n-1), and
\* a decrement right after an increment restores the index; for an empty
\* card list show_flashcards returns Ok and builds no index
C30_IndexStaysInBacking ==
    /\ [](pc = "show" =>
            /\ flash_deck_cards # <<>>
            /\ deck_card_index.backing = flash_deck_cards
            /\ InBacking(deck_card_index)
            /\ face_index.backing # <<>>
            /\ InBacking(face_index))
    /\ []((pc = "done" /\ flash_deck_cards = <<>>) =>
            /\ returned = "Ok"
            /\ called.op = "show_flashcards"
            /\ deck_card_index = NoIndex
            /\ face_index = NoIndex)
    /\ [][pc = "show" =>
            /\ called'.op = "NextFace" =>
                face_index'.index = Wrapped(face_index.index, Len(face_index.backing))
            /\ called'.op = "PrevFace" =>
                face_index'.index = WrappedBack(face_index.index, Len(face_index.backing))
            /\ called'.op = "ExactFace" =>
                \/ face_index'.index = called'.index
                      /\ called'.index <= Len(face_index.backing) - 1
                \/ face_index'.index = Len(face_index.backing) - 1
                      /\ called'.index > Len(face_index.backing) - 1
            /\ called'.op = "NextCard" =>
                deck_card_index'.index = Wrapped(deck_card_index.index, Len(flash_deck_cards))
            /\ called'.op = "PrevCard" =>
                deck_card_index'.index =
                    WrappedBack(deck_card_index.index, Len(flash_deck_cards))
            /\ (called.op = "NextFace" /\ called'.op = "PrevFace") =>
                face_index'.index = called.index
            /\ (called.op = "NextCard" /\ called'.op = "PrevCard") =>
                deck_card_index'.index = called.index]_vars

\* the last of three cards is shown, it has three faces, and the index over
\* them has just wrapped from the last face to the first
C30_Witness ==
    /\ pc = "show"
    /\ Len(flash_deck_cards) = 3
    /\ deck_card_index.index = 2
    /\ Len(face_index.backing) = 3
    /\ called.op = "NextFace"
    /\ called.index = 2
    /\ face_index.index = 0

====
